---- MODULE Spec2Model ----
(***************************************************************************)
(* Rostering compliance and assignment engine: the domain model            *)
(* (app/dataset/dataset.py), the rules engine (app/dataset/rules_engine.py), *)
(* the shift combiner (app/dataset/shift_combiner.py) and the interactive   *)
(* shift optimizer (app/reports/shift_optimizer.py).                        *)
(*                                                                         *)
(* Conventions of the model                                                *)
(*  - a datetime is a number of minutes since Shift.REFERENCE_DATE          *)
(*    (2024-10-01 00:00, a Tuesday); every time of the model is >= 0;       *)
(*  - hours (gross_hours, net_hours) are kept in hundredths of an hour,     *)
(*    the resolution round(x, 2) leaves them in; sums and comparisons of    *)
(*    hours and scores are exact, where the code uses binary floats;        *)
(*  - a string that the code inspects (department, role) is a sequence of   *)
(*    tokens; "-" is a token of its own and blanks between tokens are       *)
(*    implied;                                                              *)
(*  - a Shift object has identity (Shift defines neither __eq__ nor         *)
(*    __hash__): the field id stands for the object's identity;             *)
(*  - dict and list orders are kept: employees is a sequence in insertion   *)
(*    order, and an employee_code is the position in it.                    *)
(***************************************************************************)
EXTENDS Integers, Sequences, FiniteSets, TLC

VARIABLES
    pc,                       \* position of the orchestrating caller
    now,                      \* datetime.now() of the run
    employees,                \* DataSet.employees
    unassigned_shifts,        \* DataSet.unassigned_shifts
    combined_unfilled_shifts, \* DataSet.combined_unfilled_shifts
    combination_details,      \* ShiftCombiner.combination_details
    uncombined_short_shifts,  \* ShiftCombiner.uncombined_short_shifts
    assigned_shifts,          \* ShiftOptimizer.assigned_shifts
    rejected_pairs,           \* ShiftOptimizer.rejected_pairs
    employee_assignments,     \* ShiftOptimizer.employee_assignments
    shift_difficulties,       \* ShiftOptimizer.shift_difficulties
    unfillable_shifts,        \* ShiftOptimizer.unfillable_shifts
    proposal,                 \* what find_next_best_assignment last returned
    verdict,                  \* what can_offer_shift or a validator last returned
    imported,                 \* the add_shift and add_leave calls the importers made
    report_log                \* the warnings and errors on report_logger

vars == <<pc, now, employees, unassigned_shifts, combined_unfilled_shifts,
          combination_details, uncombined_short_shifts, assigned_shifts,
          rejected_pairs, employee_assignments, shift_difficulties,
          unfillable_shifts, proposal, verdict, imported, report_log>>

(***************************************************************************)
(* Generic helpers                                                         *)
(***************************************************************************)
Range(f) == { f[i] : i \in DOMAIN f }

Min(S) == CHOOSE x \in S : \A y \in S : x <= y

Max(S) == CHOOSE x \in S : \A y \in S : x >= y

Abs(x) == IF x < 0 THEN -x ELSE x

MinOf(a, b) == IF a <= b THEN a ELSE b

RECURSIVE SumGrossSeq(_)
SumGrossSeq(s) == IF s = <<>> THEN 0 ELSE Head(s).gross_hours + SumGrossSeq(Tail(s))

RECURSIVE SumNetSeq(_)
SumNetSeq(s) == IF s = <<>> THEN 0 ELSE Head(s).net_hours + SumNetSeq(Tail(s))

RECURSIVE SumGross(_)
SumGross(S) ==
    IF S = {} THEN 0
    ELSE LET x == CHOOSE y \in S : TRUE IN x.gross_hours + SumGross(S \ {x})

RECURSIVE SumNet(_)
SumNet(S) ==
    IF S = {} THEN 0
    ELSE LET x == CHOOSE y \in S : TRUE IN x.net_hours + SumNet(S \ {x})

\* sorted(seq, key=lambda s: s.start): Python's sort is stable (insertion sort here).
RECURSIVE InsertByStart(_, _)
InsertByStart(sorted, x) ==
    IF sorted = <<>> THEN <<x>>
    ELSE IF Head(sorted).start <= x.start
         THEN <<Head(sorted)>> \o InsertByStart(Tail(sorted), x)
         ELSE <<x>> \o sorted

RECURSIVE SortByStart(_)
SortByStart(s) ==
    IF s = <<>> THEN <<>>
    ELSE InsertByStart(SortByStart(SubSeq(s, 1, Len(s) - 1)), s[Len(s)])

(***************************************************************************)
(* Strings as token sequences                                              *)
(***************************************************************************)
\* str.upper(), token by token
UpperToken(t) ==
    CASE t = "Support" -> "SUPPORT"
      [] t = "Worker"  -> "WORKER"
      [] OTHER         -> t

Upper(str) == [i \in DOMAIN str |-> UpperToken(str[i])]

\* str.startswith(prefix)
StartsWith(str, prefix) ==
    /\ Len(prefix) <= Len(str)
    /\ SubSeq(str, 1, Len(prefix)) = prefix

\* needle in str
Contains(str, needle) ==
    \E i \in 0..(Len(str) - Len(needle)) : SubSeq(str, i + 1, i + Len(needle)) = needle

(***************************************************************************)
(* Dates and times (datetime)                                              *)
(***************************************************************************)
MinutesPerDay == 24 * 60

DateOf(t) == t \div MinutesPerDay          \* datetime.date()

HourOf(t) == (t % MinutesPerDay) \div 60   \* datetime.hour

\* datetime.weekday(): Monday is 0; day 0 of the model is Tuesday 2024-10-01
WeekdayOf(t) == (DateOf(t) + 1) % 7

(***************************************************************************)
(* Domain model (dataset.py)                                               *)
(***************************************************************************)
\* Shift.calculate_pay_cycle
calculate_pay_cycle(start_date) == (DateOf(start_date) \div 14) + 1

\* Shift.calculate_gross_hours: round(seconds / 3600, 2), in hundredths of an hour
calculate_gross_hours(start, end) == (10 * (end - start) + 3) \div 6

\* Shift.calculate_net_hours
calculate_net_hours(is_attended, gross_hours) == IF is_attended THEN gross_hours ELSE 0

\* WorkArea.__init__ ; equality is by value, as WorkArea.__eq__
WorkArea(location, department, role) ==
    [location |-> location, department |-> department, role |-> role]

\* Shift.__init__ (published, comment and week_num are carried by no rule)
Shift(id, start, end, work_area, is_attended) ==
    [id          |-> id,
     start       |-> start,
     end         |-> end,
     work_area   |-> work_area,
     is_attended |-> is_attended,
     pay_cycle   |-> calculate_pay_cycle(start),
     gross_hours |-> calculate_gross_hours(start, end),
     net_hours   |-> calculate_net_hours(is_attended, calculate_gross_hours(start, end))]

\* Leave.__init__ (status, hours and leave_type are read by no rule of the engine)
Leave(date, requested_at) == [date |-> date, requested_at |-> requested_at]

\* Employee.__init__
Employee(employee_code, employment_type, contract_status) ==
    [employee_code   |-> employee_code,
     employment_type |-> employment_type,
     contract_status |-> contract_status,
     shifts          |-> {},
     work_areas      |-> {},
     leave_dates     |-> {}]

\* Employee.add_shift: membership in the set of shifts is by object identity
add_shift(emp, new_shift) ==
    IF new_shift \notin emp.shifts
    THEN [emp EXCEPT !.shifts = @ \cup {new_shift},
                     !.work_areas = @ \cup {new_shift.work_area}]
    ELSE emp

\* add_leave replacing the held entry also when the new one is as recent
add_leave_ReplacingOnTie(emp, new_leave) ==
    IF \E l \in emp.leave_dates : l.date = new_leave.date
    THEN LET existing_leave == CHOOSE l \in emp.leave_dates : l.date = new_leave.date
         IN  IF new_leave.requested_at >= existing_leave.requested_at
             THEN [emp EXCEPT !.leave_dates = (@ \ {existing_leave}) \cup {new_leave}]
             ELSE emp
    ELSE [emp EXCEPT !.leave_dates = @ \cup {new_leave}]

\* Employee.add_leave
add_leave(emp, new_leave) ==
    IF \E l \in emp.leave_dates : l.date = new_leave.date
    THEN LET existing_leave == CHOOSE l \in emp.leave_dates : l.date = new_leave.date
         IN  IF new_leave.requested_at > existing_leave.requested_at
             THEN [emp EXCEPT !.leave_dates = (@ \ {existing_leave}) \cup {new_leave}]
             ELSE emp
    ELSE [emp EXCEPT !.leave_dates = @ \cup {new_leave}]

(***************************************************************************)
(* Rules engine (rules_engine.py)                                          *)
(***************************************************************************)
\* RuleResult(passed, reason)
RuleResult(passed, reason) == [passed |-> passed, reason |-> reason]

IHS == <<"IHS">>

SOCIAL == <<"SOCIAL">>

SUPPORT_WORKER == <<"SUPPORT", "WORKER">>

\* RulesEngine._is_sleepover_shift
_is_sleepover_shift(shift) == DateOf(shift.start) # DateOf(shift.end)

\* RulesEngine._can_work_area
_can_work_area(emp, shift) ==
    IF \E prefix \in {IHS, SOCIAL} : StartsWith(shift.work_area.department, prefix)
    THEN IF shift.work_area \notin emp.work_areas
         THEN RuleResult(FALSE, "Employee not authorized for IHS/SOCIAL department work area")
         ELSE RuleResult(TRUE, "")
    ELSE IF \E wa \in emp.work_areas :
                /\ wa.location = shift.work_area.location
                /\ wa.department = shift.work_area.department
                /\ \/ wa.role = shift.work_area.role
                   \/ Contains(Upper(shift.work_area.department), SUPPORT_WORKER)
         THEN RuleResult(TRUE, "")
         ELSE RuleResult(FALSE, "Employee not authorized for work area")

\* the calendar days first..last of one shift
DaysSpanned(s) == DateOf(s.start)..DateOf(s.end)

\* _within_fortnight_days that rejects already at max_days days
_within_fortnight_days_AtLimit(emp, shift) ==
    LET pay_cycle == calculate_pay_cycle(shift.start)
        existing_days ==
            UNION { DaysSpanned(s) :
                    s \in { x \in emp.shifts : calculate_pay_cycle(x.start) = pay_cycle } }
              \cup DaysSpanned(shift)
        max_days == IF emp.employment_type = "CASUAL" THEN 14 ELSE 10
    IN  IF Cardinality(existing_days) >= max_days
        THEN RuleResult(FALSE, IF max_days = 14
                               THEN "Exceeds maximum 14 days per fortnight"
                               ELSE "Exceeds maximum 10 days per fortnight")
        ELSE RuleResult(TRUE, "")

\* RulesEngine._within_fortnight_days
_within_fortnight_days(emp, shift) ==
    LET pay_cycle == calculate_pay_cycle(shift.start)
        existing_days ==
            UNION { DaysSpanned(s) :
                    s \in { x \in emp.shifts : calculate_pay_cycle(x.start) = pay_cycle } }
              \cup DaysSpanned(shift)
        max_days == IF emp.employment_type = "CASUAL" THEN 14 ELSE 10
    IN  IF Cardinality(existing_days) > max_days
        THEN RuleResult(FALSE, IF max_days = 14
                               THEN "Exceeds maximum 14 days per fortnight"
                               ELSE "Exceeds maximum 10 days per fortnight")
        ELSE RuleResult(TRUE, "")

\* RulesEngine._within_12_hour_window
_within_12_hour_window(emp, shift) ==
    LET day_shifts == { s \in emp.shifts : DateOf(s.start) = DateOf(shift.start) }
    IN  IF day_shifts = {} THEN RuleResult(TRUE, "")
        ELSE LET first_shift_start == Min({ s.start : s \in day_shifts })
                 window_end == first_shift_start + 12 * 60
                 relevant_shifts ==
                     { s \in day_shifts : first_shift_start <= s.start /\ s.start <= window_end }
             IN  IF /\ first_shift_start <= shift.start
                    /\ shift.start <= window_end
                    /\ SumNet(relevant_shifts) + shift.net_hours > 10 * 100
                 THEN RuleResult(FALSE, "Exceeds 10 hours in 12-hour window")
                 ELSE RuleResult(TRUE, "")

\* RulesEngine._within_max_hours
_within_max_hours(emp, shift) ==
    LET pay_cycle == calculate_pay_cycle(shift.start)
        current_hours ==
            SumNet({ s \in emp.shifts : calculate_pay_cycle(s.start) = pay_cycle })
    IN  IF current_hours + shift.net_hours > 76 * 100
        THEN RuleResult(FALSE, "Exceeds 76 hours per pay cycle")
        ELSE RuleResult(TRUE, "")

\* RulesEngine._meets_ifa_requirements
_meets_ifa_requirements(emp, shift) ==
    IF _is_sleepover_shift(shift) /\ emp.contract_status # "FULL_IFA"
    THEN RuleResult(FALSE, "Sleepover shift requires Full IFA status")
    ELSE RuleResult(TRUE, "")

\* RulesEngine._no_existing_commitments
_no_existing_commitments(emp, shift) ==
    IF \E s \in emp.shifts : s.start <= shift.end /\ s.end >= shift.start
    THEN RuleResult(FALSE, "Overlaps with existing shift")
    ELSE RuleResult(TRUE, "")

\* RulesEngine._not_on_leave: the leave covers time.min..time.max of its date
_not_on_leave(emp, shift) ==
    IF \E leave \in emp.leave_dates :
           LET leave_start == leave.date * MinutesPerDay
               leave_next  == (leave.date + 1) * MinutesPerDay
           IN  shift.start < leave_next /\ shift.end >= leave_start
    THEN RuleResult(FALSE, "Employee on leave during shift period")
    ELSE RuleResult(TRUE, "")

\* RulesEngine._not_already_working_unless_longer
_not_already_working_unless_longer(emp, shift) ==
    LET existing_hours ==
            SumNet({ s \in emp.shifts : DateOf(s.start) = DateOf(shift.start) })
    IN  IF existing_hours > 0 /\ shift.net_hours <= existing_hours
        THEN RuleResult(FALSE, "New shift must be longer than existing shifts for the day")
        ELSE RuleResult(TRUE, "")

\* the rule names of rules_to_check, in its order
rules_to_check ==
    << "Work Area Authorization", "Fortnight Days Limit", "12-Hour Window",
       "Maximum Hours", "IFA Requirements", "Existing Commitments",
       "Leave Conflict", "Shift Length Priority" >>

\* rule_func with the leave rule run before the overlap rule
rule_func_LeaveBeforeOverlap(i, emp, shift) ==
    CASE i = 1 -> _can_work_area(emp, shift)
      [] i = 2 -> _within_fortnight_days(emp, shift)
      [] i = 3 -> _within_12_hour_window(emp, shift)
      [] i = 4 -> _within_max_hours(emp, shift)
      [] i = 5 -> _meets_ifa_requirements(emp, shift)
      [] i = 6 -> _not_on_leave(emp, shift)
      [] i = 7 -> _no_existing_commitments(emp, shift)
      [] i = 8 -> _not_already_working_unless_longer(emp, shift)

\* rule_func(shift) for the i-th entry of rules_to_check
rule_func(i, emp, shift) ==
    CASE i = 1 -> _can_work_area(emp, shift)
      [] i = 2 -> _within_fortnight_days(emp, shift)
      [] i = 3 -> _within_12_hour_window(emp, shift)
      [] i = 4 -> _within_max_hours(emp, shift)
      [] i = 5 -> _meets_ifa_requirements(emp, shift)
      [] i = 6 -> _no_existing_commitments(emp, shift)
      [] i = 7 -> _not_on_leave(emp, shift)
      [] i = 8 -> _not_already_working_unless_longer(emp, shift)

\* the (can_offer, reason) pair; a reason is <<>> (the empty string) or
\* <<rule_name, result.reason>> (the f-string "{rule_name}: {result.reason}")
NoReason == <<>>

\* the body of the loop of can_offer_shift for one rule: what it returns when
\* the rule fails, and otherwise what the rest of the loop returns
CheckRule(rule_name, result, rest) ==
    IF ~result.passed
    THEN IF rule_name = "Work Area Authorization"
         THEN <<FALSE, NoReason>>
         ELSE <<FALSE, <<rule_name, result.reason>> >>
    ELSE rest

\* the loop of can_offer_shift from its i-th rule on
RECURSIVE CheckRulesFrom(_, _, _)
CheckRulesFrom(i, emp, shift) ==
    IF i > Len(rules_to_check) THEN <<TRUE, NoReason>>
    ELSE CheckRule(rules_to_check[i], rule_func(i, emp, shift),
                   CheckRulesFrom(i + 1, emp, shift))

\* RulesEngine.can_offer_shift
can_offer_shift(emp, shift) == CheckRulesFrom(1, emp, shift)

(***************************************************************************)
(* Shift combiner (shift_combiner.py)                                      *)
(***************************************************************************)
\* the order of str on the tokens the model uses ("<" of Python strings)
TokenRank(t) ==
    CASE t = "-"          -> 1
      [] t = "AM"         -> 2
      [] t = "COORD"      -> 3
      [] t = "DISABILITY" -> 4
      [] t = "IHS"        -> 5
      [] t = "NORTH"      -> 6
      [] t = "PM"         -> 7
      [] t = "SOCIAL"     -> 8
      [] t = "SUPPORT"    -> 9
      [] t = "SW"         -> 10
      [] t = "WORKER"     -> 11
      [] OTHER            -> 12

\* a < b for two strings
RECURSIVE StrLess(_, _)
StrLess(a, b) ==
    IF b = <<>> THEN FALSE
    ELSE IF a = <<>> THEN TRUE
    ELSE IF Head(a) = Head(b) THEN StrLess(Tail(a), Tail(b))
    ELSE TokenRank(Head(a)) < TokenRank(Head(b))

\* ShiftCombiner._get_role_prefix: role.split('-')[0].strip() if '-' in role else role
RECURSIVE UpToHyphen(_)
UpToHyphen(role) ==
    IF role = <<>> \/ Head(role) = "-" THEN <<>>
    ELSE <<Head(role)>> \o UpToHyphen(Tail(role))

_get_role_prefix(role) == IF Contains(role, <<"-">>) THEN UpToHyphen(role) ELSE role

\* the sleepover branch of the loop body of _find_sleepover_components:
\* (all_shifts, total_gross, total_net) for the midnight-spanning shift
SleepoverCombination(sorted_shifts, shift) ==
    LET pre_shift_start == shift.start - 4 * 60
        IsPre(s) == s.end = shift.start /\ s.start >= pre_shift_start
        pre_shifts == SelectSeq(sorted_shifts, IsPre)
        post_shift_end == DateOf(shift.end) * MinutesPerDay + 6 * 60
        IsPost(s) == s.start = shift.end /\ s.end <= post_shift_end
        post_shifts == IF HourOf(shift.end) < 6
                       THEN SelectSeq(sorted_shifts, IsPost)
                       ELSE <<>>
        all_shifts == pre_shifts \o <<shift>> \o post_shifts
    IN  [shifts      |-> all_shifts,
         gross_hours |-> SumGrossSeq(all_shifts),
         net_hours   |-> SumNetSeq(pre_shifts \o post_shifts)]

\* the loop of _find_sleepover_components from position i of sorted_shifts on
RECURSIVE SleepoverLoop(_, _, _, _)

\* the end of its body: the combination is recorded and its shifts are used
RecordSleepoverCombination(sorted_shifts, i, used_shifts, sleepover_combinations, combo) ==
    SleepoverLoop(sorted_shifts, i + 1,
                  used_shifts \cup Range(combo.shifts),
                  Append(sleepover_combinations, combo))

SleepoverLoop(sorted_shifts, i, used_shifts, sleepover_combinations) ==
    IF i > Len(sorted_shifts) THEN sleepover_combinations
    ELSE IF sorted_shifts[i] \in used_shifts \/ ~_is_sleepover_shift(sorted_shifts[i])
    THEN SleepoverLoop(sorted_shifts, i + 1, used_shifts, sleepover_combinations)
    ELSE RecordSleepoverCombination(sorted_shifts, i, used_shifts, sleepover_combinations,
                                    SleepoverCombination(sorted_shifts, sorted_shifts[i]))

\* ShiftCombiner._find_sleepover_components
_find_sleepover_components(shifts) == SleepoverLoop(SortByStart(shifts), 1, {}, <<>>)

\* range(a, b) of Python as a sequence
RangeSeq(a, b) == [k \in 1..(IF b > a THEN b - a ELSE 0) |-> a + k - 1]

\* the same test without "At least one shift must be less than 2 hours"
ValidChunk_WithoutShortFragment(chunk) ==
    /\ SumGrossSeq(chunk) <= 10 * 100
    /\ \A j \in 1..(Len(chunk) - 1) : chunk[j].end = chunk[j + 1].start

\* one chunk of _find_combinations_in_group is a valid combination
ValidChunk(chunk) ==
    /\ SumGrossSeq(chunk) <= 10 * 100
    /\ \A j \in 1..(Len(chunk) - 1) : chunk[j].end = chunk[j + 1].start
    /\ \E j \in 1..Len(chunk) : chunk[j].gross_hours < 2 * 100

\* the chunks of one size, in the order of i
ChunksOfSize(shifts, size) ==
    LET n == Len(shifts)
        starts == RangeSeq(0, n - size + 1)
        chunks == [k \in DOMAIN starts |-> SubSeq(shifts, starts[k] + 1, starts[k] + size)]
    IN  SelectSeq(chunks, ValidChunk)

\* the loop over sizes of _find_combinations_in_group
RECURSIVE ChunksFromSize(_, _, _)
ChunksFromSize(shifts, sizes, k) ==
    IF k > Len(sizes) THEN <<>>
    ELSE ChunksOfSize(shifts, sizes[k]) \o ChunksFromSize(shifts, sizes, k + 1)

\* ShiftCombiner._find_combinations_in_group
_find_combinations_in_group(shifts) ==
    ChunksFromSize(shifts, RangeSeq(2, MinOf(Len(shifts) + 1, 5)), 1)

AppendIfNew(seq, x) == IF x \in Range(seq) THEN seq ELSE Append(seq, x)

\* the keys of a defaultdict filled in the order of seq: first appearance
RECURSIVE FirstAppearance(_)
FirstAppearance(keys) ==
    IF keys = <<>> THEN <<>>
    ELSE AppendIfNew(FirstAppearance(SubSeq(keys, 1, Len(keys) - 1)), keys[Len(keys)])

\* all_combinations.extend(...) over the role groups, in their order
RECURSIVE CombinationsOfGroups(_, _, _)
CombinationsOfGroups(sorted_shifts, prefixes, k) ==
    IF k > Len(prefixes) THEN <<>>
    ELSE LET InGroup(s) == _get_role_prefix(s.work_area.role) = prefixes[k]
         IN  _find_combinations_in_group(SelectSeq(sorted_shifts, InGroup))
               \o CombinationsOfGroups(sorted_shifts, prefixes, k + 1)

\* the second half of _find_regular_combinations: the shifts no same-prefix
\* combination uses are combined across prefixes
WithCrossPrefixCombinations(sorted_shifts, all_combinations) ==
    LET used_shifts == UNION { Range(all_combinations[k]) : k \in DOMAIN all_combinations }
        NotUsed(s) == s \notin used_shifts
    IN  all_combinations \o _find_combinations_in_group(SelectSeq(sorted_shifts, NotUsed))

\* the first half: the combinations within each role prefix group
WithinPrefixCombinations(sorted_shifts) ==
    WithCrossPrefixCombinations(
        sorted_shifts,
        CombinationsOfGroups(
            sorted_shifts,
            FirstAppearance([k \in DOMAIN sorted_shifts |->
                                _get_role_prefix(sorted_shifts[k].work_area.role)]),
            1))

\* ShiftCombiner._find_regular_combinations
_find_regular_combinations(shifts) ==
    IF shifts = <<>> THEN <<>>
    ELSE LET IsRegular(s) == ~_is_sleepover_shift(s)
         IN  WithinPrefixCombinations(SortByStart(SelectSeq(shifts, IsRegular)))

\* ShiftCombiner._merge_shifts, for a non-empty list; id is the new object's identity
\* and the hour overrides are always given by the caller of the model
_merge_shifts(id, shifts, total_gross_hours, total_net_hours) ==
    LET start == Min({ shifts[k].start : k \in DOMAIN shifts })
        end   == Max({ shifts[k].end : k \in DOMAIN shifts })
        work_area == WorkArea(shifts[1].work_area.location,
                              shifts[1].work_area.department,
                              SUPPORT_WORKER)
        combined == Shift(id, start, end, work_area,
                          \E k \in DOMAIN shifts : shifts[k].is_attended)
    IN  [combined EXCEPT !.pay_cycle   = shifts[1].pay_cycle,
                         !.gross_hours = total_gross_hours,
                         !.net_hours   = total_net_hours]

\* final_shifts.append(combined), combination_details[combined] = sorted(combo)
\* and used_shifts.update(combo) in combine_shifts; st is the combiner's running
\* state: final_shifts, combination_details, used_shifts, uncombined_short_shifts
\* and the identity the next new Shift object gets
RecordCombination(st, combo, combined) ==
    [final_shifts            |-> Append(st.final_shifts, combined),
     combination_details     |-> (combined :> SortByStart(combo)) @@ st.combination_details,
     used_shifts             |-> st.used_shifts \cup Range(combo),
     uncombined_short_shifts |-> st.uncombined_short_shifts,
     next_id                 |-> st.next_id + 1]

\* the loop over sleepover_combinations in combine_shifts
RECURSIVE ApplySleepoverCombinations(_, _, _)
ApplySleepoverCombinations(st, sleepover_combinations, k) ==
    IF k > Len(sleepover_combinations) THEN st
    ELSE ApplySleepoverCombinations(
             RecordCombination(st, sleepover_combinations[k].shifts,
                               _merge_shifts(st.next_id,
                                             sleepover_combinations[k].shifts,
                                             sleepover_combinations[k].gross_hours,
                                             sleepover_combinations[k].net_hours)),
             sleepover_combinations, k + 1)

\* the loop over regular_combinations in combine_shifts
RECURSIVE ApplyRegularCombinations(_, _, _)
ApplyRegularCombinations(st, regular_combinations, k) ==
    IF k > Len(regular_combinations) THEN st
    ELSE IF \E j \in DOMAIN regular_combinations[k] :
                regular_combinations[k][j] \in st.used_shifts
    THEN ApplyRegularCombinations(st, regular_combinations, k + 1)
    ELSE ApplyRegularCombinations(
             RecordCombination(st, regular_combinations[k],
                               _merge_shifts(st.next_id, regular_combinations[k],
                                             SumGrossSeq(regular_combinations[k]),
                                             SumNetSeq(regular_combinations[k]))),
             regular_combinations, k + 1)

\* "Add remaining uncombined shifts" of combine_shifts
AddUncombined(st, shifts) ==
    LET NotUsed(s) == s \notin st.used_shifts
        IsShort(s) == s.gross_hours < 2 * 100
    IN  [st EXCEPT !.final_shifts = @ \o SelectSeq(shifts, NotUsed),
                   !.uncombined_short_shifts =
                       @ \o SelectSeq(SelectSeq(shifts, NotUsed), IsShort)]

\* "Then process remaining regular shifts" of combine_shifts
CombineRegular(st, shifts) ==
    LET NotUsed(s) == s \notin st.used_shifts
    IN  AddUncombined(
            ApplyRegularCombinations(
                st, _find_regular_combinations(SelectSeq(shifts, NotUsed)), 1),
            shifts)

\* the body of the loop over dept_shifts in combine_shifts, for one group
CombineGroup(st, dept, shifts) ==
    IF Contains(dept, IHS)
    THEN [st EXCEPT !.final_shifts = @ \o shifts]
    ELSE CombineRegular(
             ApplySleepoverCombinations(st, _find_sleepover_components(shifts), 1),
             shifts)

\* the loop over dept_shifts.items() in combine_shifts
RECURSIVE CombineGroups(_, _, _, _)
CombineGroups(st, current_shifts, keys, k) ==
    IF k > Len(keys) THEN st
    ELSE LET InGroup(s) == <<s.work_area.department, s.work_area.location>> = keys[k]
         IN  CombineGroups(CombineGroup(st, keys[k][1], SelectSeq(current_shifts, InGroup)),
                           current_shifts, keys, k + 1)

\* sorted(final_shifts, key=lambda s: (s.work_area.department, s.start)), stable
KeyLessEq(a, b) ==
    \/ StrLess(a.work_area.department, b.work_area.department)
    \/ /\ a.work_area.department = b.work_area.department
       /\ a.start <= b.start

RECURSIVE InsertByDepartmentStart(_, _)
InsertByDepartmentStart(sorted, x) ==
    IF sorted = <<>> THEN <<x>>
    ELSE IF KeyLessEq(Head(sorted), x)
         THEN <<Head(sorted)>> \o InsertByDepartmentStart(Tail(sorted), x)
         ELSE <<x>> \o sorted

RECURSIVE SortByDepartmentStart(_)
SortByDepartmentStart(s) ==
    IF s = <<>> THEN <<>>
    ELSE InsertByDepartmentStart(SortByDepartmentStart(SubSeq(s, 1, Len(s) - 1)), s[Len(s)])

\* the identity of the next Shift object to be built: above every one there is
NextShiftId(emps, shifts) ==
    1 + Max({0} \cup { shifts[k].id : k \in DOMAIN shifts }
                \cup UNION { { s.id : s \in emps[e].shifts } : e \in DOMAIN emps })

\* the end of combine_shifts: what the combiner holds when it returns
CombinerResult(st) ==
    [combined_shifts         |-> SortByDepartmentStart(st.final_shifts),
     combination_details     |-> st.combination_details,
     uncombined_short_shifts |-> st.uncombined_short_shifts]

\* combine_shifts from "Group shifts by department and location" on
CombineCurrentShifts(current_shifts, next_id) ==
    CombinerResult(
        CombineGroups([final_shifts            |-> <<>>,
                       combination_details     |-> <<>>,
                       used_shifts             |-> {},
                       uncombined_short_shifts |-> <<>>,
                       next_id                 |-> next_id],
                      current_shifts,
                      FirstAppearance(
                          [k \in DOMAIN current_shifts |->
                              <<current_shifts[k].work_area.department,
                                current_shifts[k].work_area.location>>]),
                      1))

\* ShiftCombiner.combine_shifts
combine_shifts(emps, unassigned, at) ==
    LET today == DateOf(at) * MinutesPerDay
        FromToday(s) == s.start >= today
    IN  CombineCurrentShifts(SelectSeq(unassigned, FromToday), NextShiftId(emps, unassigned))

(***************************************************************************)
(* Shift optimizer (shift_optimizer.py)                                    *)
(***************************************************************************)
None == [none |-> TRUE]

\* round(num / den, 0) of Python for num >= 0, den > 0: ties go to the even integer
RoundHalfEven(num, den) ==
    LET q == num \div den
        r == num % den
    IN  IF 2 * r < den THEN q
        ELSE IF 2 * r > den THEN q + 1
        ELSE IF q % 2 = 0 THEN q ELSE q + 1

\* the number of employees the rules engine lets the shift be offered to
EligibleCount(emps, shift) ==
    Cardinality({ e \in DOMAIN emps : can_offer_shift(emps[e], shift)[1] })

\* ShiftOptimizer._calculate_shift_difficulty, in hundredths, once the eligible
\* employees are counted. The sum is taken over the common denominator
\* 12000 * total_employees before it is rounded.
ShiftDifficulty(total_employees, eligible_count, combined, at, shift) ==
    LET \* 5.0 * (1 - eligible_count / total_employees)
        employee_score  == 5 * (total_employees - eligible_count) * 12000
        \* min(1, abs(gross_hours - 5) / 5)
        hours_score     == MinOf(500, Abs(shift.gross_hours - 500)) * 24
        \* abs(start.hour - 12) / 12
        hour_diff       == Abs(HourOf(shift.start) - 12) * 1000
        gaps            == { Abs(combined[k].start - shift.end) :
                               k \in { j \in DOMAIN combined : combined[j] # shift } }
        \* 1.0 if there is no other shift, else min(1.0, closest_shift_gap / 8)
        isolation_score == IF gaps = {} THEN 12000 ELSE MinOf(480, Min(gaps)) * 25
        weekday         == WeekdayOf(shift.start)
        day_score       == IF weekday \in {5, 6} THEN 0
                           ELSE (4 - Abs(weekday - 2)) * 3000
        days_until      == (shift.start - at) \div MinutesPerDay
        future_score    == IF days_until > 0 THEN MinOf(30, days_until) * 400 ELSE 0
        remaining_score == hours_score + hour_diff + isolation_score + day_score
                             + future_score
    IN  IF eligible_count = 0 THEN 10 * 100
        ELSE RoundHalfEven(employee_score + total_employees * remaining_score,
                           total_employees * 120)

_calculate_shift_difficulty(emps, combined, at, shift) ==
    ShiftDifficulty(Len(emps), EligibleCount(emps, shift), combined, at, shift)

\* ShiftOptimizer._calculate_all_shift_difficulties
_calculate_all_shift_difficulties(emps, combined, at) ==
    [s \in Range(combined) |-> _calculate_shift_difficulty(emps, combined, at, s)]

\* ShiftOptimizer._calculate_employee_score as the fraction <<numerator, denominator>>
_calculate_employee_score(emp, shift) ==
    LET total_hours  == SumGross(emp.shifts)
        num_shifts   == Cardinality(emp.shifts)
        \* the three weighted terms over the common denominator 532000
        hour_balance  == 42 * MinOf(76 * 100, total_hours)
        shift_balance == 11400 * MinOf(14, num_shifts)
        has_adjacent  == \E s \in emp.shifts :
                            \/ Abs(s.end - shift.start) < 60
                            \/ Abs(shift.end - s.start) < 60
        adjacent_score == IF has_adjacent THEN 26600 ELSE 53200
        \* shift_length_score in tenths
        shift_length_score ==
            IF 4 * 100 <= shift.gross_hours /\ shift.gross_hours <= 8 * 100 THEN 7 ELSE 10
        matching == Cardinality({ wa \in emp.work_areas :
                                    wa.department = shift.work_area.department })
        areas    == IF Cardinality(emp.work_areas) >= 1
                    THEN Cardinality(emp.work_areas) ELSE 1
    IN  << (hour_balance + shift_balance + adjacent_score) * shift_length_score
             * (2 * areas - matching),
           areas >>

\* the comparison of scores the other way round: the highest score wins
ScoreLess_Reversed(a, b) == a[1] * b[2] > b[1] * a[2]

\* a < b for two scores
ScoreLess(a, b) == a[1] * b[2] < b[1] * a[2]

\* ShiftAssignment
ShiftAssignment(shift, employee_code, score, shift_difficulty) ==
    [shift |-> shift, employee_code |-> employee_code, score |-> score,
     shift_difficulty |-> shift_difficulty]

\* ConsiderEmployee without the skip of rejected (employee, shift) pairs
ConsiderEmployee_IgnoringRejectedPairs(acc, rejected, difficulties, shift, casual_only, employee, offer, score) ==
    IF casual_only /\ employee.employment_type # "CASUAL" THEN acc
    ELSE IF offer[1]
    THEN IF acc.best_assignment = None \/ ScoreLess(score, acc.best_assignment.score)
         THEN [acc EXCEPT !.best_assignment =
                  ShiftAssignment(shift, employee.employee_code, score, difficulties[shift])]
         ELSE acc
    ELSE IF offer[2] # NoReason
    THEN [acc EXCEPT !.rejection_reasons = (employee.employee_code :> offer[2]) @@ @]
    ELSE acc

\* the body of the loop of _find_best_employee_for_shift for one employee; acc
\* holds best_assignment and rejection_reasons (best_score is the score of
\* best_assignment), offer is what can_offer_shift returned
ConsiderEmployee(acc, rejected, difficulties, shift, casual_only, employee, offer, score) ==
    IF casual_only /\ employee.employment_type # "CASUAL" THEN acc
    ELSE IF <<employee.employee_code, shift>> \in rejected THEN acc
    ELSE IF offer[1]
    THEN IF acc.best_assignment = None \/ ScoreLess(score, acc.best_assignment.score)
         THEN [acc EXCEPT !.best_assignment =
                  ShiftAssignment(shift, employee.employee_code, score, difficulties[shift])]
         ELSE acc
    ELSE IF offer[2] # NoReason
    THEN [acc EXCEPT !.rejection_reasons = (employee.employee_code :> offer[2]) @@ @]
    ELSE acc

\* the loop of _find_best_employee_for_shift from employee e on
RECURSIVE BestEmployeeLoop(_, _, _, _, _, _, _)
BestEmployeeLoop(emps, rejected, difficulties, shift, casual_only, e, acc) ==
    IF e > Len(emps) THEN acc
    ELSE BestEmployeeLoop(
             emps, rejected, difficulties, shift, casual_only, e + 1,
             ConsiderEmployee(acc, rejected, difficulties, shift, casual_only, emps[e],
                              can_offer_shift(emps[e], shift),
                              _calculate_employee_score(emps[e], shift)))

\* the end of _find_best_employee_for_shift: the shift with no candidate and
\* some rejection reason is stored as unfillable, with difficulty 10
StoreIfUnfillable(o, shift, acc) ==
    IF acc.best_assignment = None /\ DOMAIN acc.rejection_reasons # {}
    THEN [shift_difficulties |-> (shift :> 10 * 100) @@ o.shift_difficulties,
          unfillable_shifts  |-> (shift :> acc.rejection_reasons) @@ o.unfillable_shifts,
          result             |-> None]
    ELSE [shift_difficulties |-> o.shift_difficulties,
          unfillable_shifts  |-> o.unfillable_shifts,
          result             |-> acc.best_assignment]

\* ShiftOptimizer._find_best_employee_for_shift on the optimizer state o
\* (shift_difficulties, unfillable_shifts): the state it leaves and what it returns
_find_best_employee_for_shift(emps, rejected, o, shift, casual_only) ==
    StoreIfUnfillable(
        o, shift,
        BestEmployeeLoop(emps, rejected, o.shift_difficulties, shift, casual_only, 1,
                         [best_assignment |-> None, rejection_reasons |-> <<>>]))

\* sorted(available_shifts, key=difficulty, reverse=True): stable, highest first
RECURSIVE InsertByDifficulty(_, _, _)
InsertByDifficulty(sorted, x, difficulties) ==
    IF sorted = <<>> THEN <<x>>
    ELSE IF difficulties[Head(sorted)] >= difficulties[x]
         THEN <<Head(sorted)>> \o InsertByDifficulty(Tail(sorted), x, difficulties)
         ELSE <<x>> \o sorted

RECURSIVE SortByDifficulty(_, _)
SortByDifficulty(s, difficulties) ==
    IF s = <<>> THEN <<>>
    ELSE InsertByDifficulty(SortByDifficulty(SubSeq(s, 1, Len(s) - 1), difficulties),
                            s[Len(s)], difficulties)

\* "if assignment: return assignment", and otherwise line 219: all employees
\* are tried, on the state the first try left
OrTryAllEmployees(emps, rejected, first, shift) ==
    IF first.result # None THEN first
    ELSE _find_best_employee_for_shift(emps, rejected, first, shift, FALSE)

\* TryShift without the casual-only search for easy shifts
TryShift_AllEmployeesFirst(emps, rejected, o, shift) ==
    OrTryAllEmployees(
        emps, rejected,
        _find_best_employee_for_shift(emps, rejected, o, shift, FALSE), shift)

\* the body of the loop over sorted_shifts in find_next_best_assignment for one
\* shift that is not marked unfillable: the state it leaves, and the assignment
\* it returns or None when the loop goes on
TryShift(emps, rejected, o, shift) ==
    IF o.shift_difficulties[shift] > 2 * 100
    THEN OrTryAllEmployees(
             emps, rejected,
             _find_best_employee_for_shift(emps, rejected, o, shift, FALSE), shift)
    ELSE IF shift.gross_hours >= 2 * 100
    THEN OrTryAllEmployees(
             emps, rejected,
             _find_best_employee_for_shift(emps, rejected, o, shift, TRUE), shift)
    ELSE _find_best_employee_for_shift(emps, rejected, o, shift, FALSE)

\* the loop over sorted_shifts in find_next_best_assignment from position k on
RECURSIVE NextAssignmentLoop(_, _, _, _, _)

\* "return assignment" or the next shift of the loop
ReturnOrContinue(emps, rejected, tried, sorted_shifts, k) ==
    IF tried.result # None THEN tried
    ELSE NextAssignmentLoop(emps, rejected, tried, sorted_shifts, k + 1)

NextAssignmentLoop(emps, rejected, o, sorted_shifts, k) ==
    IF k > Len(sorted_shifts)
    THEN [shift_difficulties |-> o.shift_difficulties,
          unfillable_shifts  |-> o.unfillable_shifts,
          result             |-> None]
    ELSE IF sorted_shifts[k] \in DOMAIN o.unfillable_shifts
    THEN NextAssignmentLoop(emps, rejected, o, sorted_shifts, k + 1)
    ELSE ReturnOrContinue(emps, rejected, TryShift(emps, rejected, o, sorted_shifts[k]),
                          sorted_shifts, k)

\* find_next_best_assignment without the filter on assigned shifts
find_next_best_assignment_OfferingAssigned(emps, combined, assigned, rejected, o) ==
    IF combined = <<>>
    THEN [shift_difficulties |-> o.shift_difficulties,
          unfillable_shifts  |-> o.unfillable_shifts,
          result             |-> None]
    ELSE NextAssignmentLoop(emps, rejected, o,
                            SortByDifficulty(combined, o.shift_difficulties), 1)

\* ShiftOptimizer.find_next_best_assignment
find_next_best_assignment(emps, combined, assigned, rejected, o) ==
    LET Available(s) == s \notin assigned
    IN  IF SelectSeq(combined, Available) = <<>>
        THEN [shift_difficulties |-> o.shift_difficulties,
              unfillable_shifts  |-> o.unfillable_shifts,
              result             |-> None]
        ELSE NextAssignmentLoop(
                 emps, rejected, o,
                 SortByDifficulty(SelectSeq(combined, Available), o.shift_difficulties), 1)

(***************************************************************************)
(* The rosters and shift pools the run is started with                     *)
(***************************************************************************)
NumEmployees == 2   \* employees of the roster

MaxPool == 3        \* shifts in the unassigned pool, at most

\* day d (0 is 2024-10-01), h:m
At(d, h, m) == d * MinutesPerDay + h * 60 + m

LIMESTONE_COAST == <<"LIMESTONE", "COAST">>

DISABILITY == <<"DISABILITY">>

IHS_NORTH == <<"IHS", "NORTH">>

SW_AM == <<"SW", "-", "AM">>

SW_PM == <<"SW", "-", "PM">>

\* the unfilled shifts the importer may have read, in the order of the sheet
ShiftCatalogue ==
    << Shift(1, At(4, 12, 0), At(4, 16, 0), WorkArea(LIMESTONE_COAST, DISABILITY, SW_AM), TRUE),
       Shift(2, At(4, 16, 0), At(4, 20, 0), WorkArea(LIMESTONE_COAST, DISABILITY, SW_PM), TRUE),
       Shift(3, At(4, 11, 0), At(4, 12, 0), WorkArea(LIMESTONE_COAST, DISABILITY, SW_AM), TRUE),
       Shift(4, At(8, 22, 0), At(9, 6, 0),  WorkArea(LIMESTONE_COAST, DISABILITY, SW_PM), FALSE),
       Shift(5, At(8, 18, 0), At(8, 22, 0), WorkArea(LIMESTONE_COAST, DISABILITY, SW_PM), TRUE),
       Shift(6, At(2, 9, 0),  At(2, 13, 0), WorkArea(LIMESTONE_COAST, IHS_NORTH, SW_AM), TRUE),
       Shift(7, At(0, 9, 0),  At(0, 13, 0), WorkArea(LIMESTONE_COAST, DISABILITY, SW_AM), TRUE) >>

\* the subsequence of seq at the positions in S
RECURSIVE SubsequenceAt(_, _)
SubsequenceAt(seq, S) ==
    IF S = {} THEN <<>>
    ELSE LET last == Max(S)
         IN  Append(SubsequenceAt(seq, S \ {last}), seq[last])

\* a shift an employee already holds when the run starts
RosteredShift(code) ==
    Shift(100 + code, At(4, 8, 0), At(4, 12, 0),
          WorkArea(LIMESTONE_COAST, DISABILITY, SW_PM), TRUE)

\* the employees the importers may have built, by profile
EmployeeOfProfile(code, profile) ==
    CASE profile = "casual" ->
            [Employee(code, "CASUAL", "FULL_IFA") EXCEPT
                !.work_areas = { WorkArea(LIMESTONE_COAST, DISABILITY, SW_AM),
                                 WorkArea(LIMESTONE_COAST, DISABILITY, SW_PM),
                                 WorkArea(LIMESTONE_COAST, IHS_NORTH, SW_AM) }]
      [] profile = "part_time" ->
            [Employee(code, "PART_TIME", "NO_IFA") EXCEPT
                !.work_areas = { WorkArea(LIMESTONE_COAST, DISABILITY, SW_AM),
                                 WorkArea(LIMESTONE_COAST, DISABILITY, SW_PM) }]
      [] profile = "casual_on_leave" ->
            add_leave([Employee(code, "CASUAL", "NO_IFA") EXCEPT
                          !.work_areas = { WorkArea(LIMESTONE_COAST, DISABILITY, SW_AM) }],
                      Leave(4, At(0, 8, 0)))
      [] profile = "rostered" ->
            add_shift([Employee(code, "FULL_TIME", "FULL_IFA") EXCEPT
                          !.work_areas = { WorkArea(LIMESTONE_COAST, IHS_NORTH, SW_AM) }],
                      RosteredShift(code))

Profiles == {"casual", "part_time", "casual_on_leave", "rostered"}

(***************************************************************************)
(* The run: import, combine, then the assignment loop of main.py           *)
(***************************************************************************)
Init ==
    /\ pc = "imported"
    /\ now = At(1, 9, 0)
    /\ \E roster \in [1..NumEmployees -> Profiles] :
           employees = [e \in 1..NumEmployees |-> EmployeeOfProfile(e, roster[e])]
    /\ \E S \in SUBSET DOMAIN ShiftCatalogue :
           /\ Cardinality(S) <= MaxPool
           /\ unassigned_shifts = SubsequenceAt(ShiftCatalogue, S)
    /\ combined_unfilled_shifts = <<>>
    /\ combination_details = <<>>
    /\ uncombined_short_shifts = <<>>
    /\ assigned_shifts = {}
    /\ rejected_pairs = {}
    /\ employee_assignments = <<>>
    /\ shift_difficulties = <<>>
    /\ unfillable_shifts = <<>>
    /\ proposal = None
    /\ verdict = None
    /\ imported = <<>>
    /\ report_log = <<>>

\* ShiftCombiner(dataset).combine_shifts()
CombineShifts ==
    /\ pc = "imported"
    /\ \E c \in { combine_shifts(employees, unassigned_shifts, now) } :
           /\ combined_unfilled_shifts' = c.combined_shifts
           /\ combination_details' = c.combination_details
           /\ uncombined_short_shifts' = c.uncombined_short_shifts
    /\ pc' = "combined"
    /\ UNCHANGED <<now, imported, report_log, employees, unassigned_shifts, assigned_shifts, rejected_pairs,
                   employee_assignments, shift_difficulties, unfillable_shifts,
                   proposal, verdict>>

\* ShiftOptimizer(dataset): ShiftOptimizer.__init__
NewShiftOptimizer ==
    /\ pc = "combined"
    /\ assigned_shifts' = {}
    /\ rejected_pairs' = {}
    /\ employee_assignments' = <<>>
    /\ unfillable_shifts' = <<>>
    /\ shift_difficulties' =
           _calculate_all_shift_difficulties(employees, combined_unfilled_shifts, now)
    /\ pc' = "ready"
    /\ UNCHANGED <<now, imported, report_log, employees, unassigned_shifts, combined_unfilled_shifts,
                   combination_details, uncombined_short_shifts, proposal, verdict>>

\* optimizer.find_next_best_assignment(), the nextProposal of the interface
FindNextBestAssignment ==
    /\ pc = "ready"
    /\ \E r \in { find_next_best_assignment(
                      employees, combined_unfilled_shifts, assigned_shifts, rejected_pairs,
                      [shift_difficulties |-> shift_difficulties,
                       unfillable_shifts  |-> unfillable_shifts]) } :
           /\ shift_difficulties' = r.shift_difficulties
           /\ unfillable_shifts' = r.unfillable_shifts
           /\ proposal' = r.result
           /\ pc' = IF r.result = None THEN "finished" ELSE "proposed"
    /\ UNCHANGED <<now, imported, report_log, employees, unassigned_shifts, combined_unfilled_shifts,
                   combination_details, uncombined_short_shifts, assigned_shifts,
                   rejected_pairs, employee_assignments, verdict>>

\* process_assignment_response that does not remember the rejected pair
process_assignment_response_ForgettingRejection(assignment, accepted) ==
    IF accepted
    THEN /\ employees' = [employees EXCEPT ![assignment.employee_code] =
                             add_shift(@, assignment.shift)]
         /\ employee_assignments' =
                (assignment.employee_code :>
                    Append(IF assignment.employee_code \in DOMAIN employee_assignments
                           THEN employee_assignments[assignment.employee_code]
                           ELSE <<>>,
                           assignment.shift))
                @@ employee_assignments
         /\ assigned_shifts' = assigned_shifts \cup {assignment.shift}
         /\ UNCHANGED <<rejected_pairs, shift_difficulties, unfillable_shifts>>
    ELSE /\ rejected_pairs' = rejected_pairs
         /\ \E r \in { _find_best_employee_for_shift(
                           employees,
                           rejected_pairs,
                           [shift_difficulties |-> shift_difficulties,
                            unfillable_shifts  |-> unfillable_shifts],
                           assignment.shift, FALSE) } :
                /\ shift_difficulties' = r.shift_difficulties
                /\ unfillable_shifts' = r.unfillable_shifts
         /\ UNCHANGED <<employees, employee_assignments, assigned_shifts>>

\* ShiftOptimizer.process_assignment_response, the respond of the interface
process_assignment_response(assignment, accepted) ==
    IF accepted
    THEN /\ employees' = [employees EXCEPT ![assignment.employee_code] =
                             add_shift(@, assignment.shift)]
         /\ employee_assignments' =
                (assignment.employee_code :>
                    Append(IF assignment.employee_code \in DOMAIN employee_assignments
                           THEN employee_assignments[assignment.employee_code]
                           ELSE <<>>,
                           assignment.shift))
                @@ employee_assignments
         /\ assigned_shifts' = assigned_shifts \cup {assignment.shift}
         /\ UNCHANGED <<rejected_pairs, shift_difficulties, unfillable_shifts>>
    ELSE /\ rejected_pairs' =
                rejected_pairs \cup {<<assignment.employee_code, assignment.shift>>}
         /\ \E r \in { _find_best_employee_for_shift(
                           employees,
                           rejected_pairs \cup {<<assignment.employee_code, assignment.shift>>},
                           [shift_difficulties |-> shift_difficulties,
                            unfillable_shifts  |-> unfillable_shifts],
                           assignment.shift, FALSE) } :
                /\ shift_difficulties' = r.shift_difficulties
                /\ unfillable_shifts' = r.unfillable_shifts
         /\ UNCHANGED <<employees, employee_assignments, assigned_shifts>>

\* the caller answers the proposal it was given: y or n
ProcessAssignmentResponse ==
    /\ pc = "proposed"
    /\ \E accepted \in BOOLEAN : process_assignment_response(proposal, accepted)
    /\ pc' = "ready"
    /\ UNCHANGED <<now, imported, report_log, unassigned_shifts, combined_unfilled_shifts, combination_details,
                   uncombined_short_shifts, proposal, verdict>>

Next ==
    \/ CombineShifts
    \/ NewShiftOptimizer
    \/ FindNextBestAssignment
    \/ ProcessAssignmentResponse

Spec == Init /\ [][Next]_vars

\* the loop of process_shift_assignments keeps calling the optimizer and every
\* proposal is answered: no step of the run is postponed for ever. Every call
\* of the run returns, so a step of Next is possible exactly while pc is not
\* "finished", and the condition below is weak fairness of Next, WF_vars(Next),
\* with that enabling condition written out.
SpecAnswered ==
    Init /\ [][Next]_vars /\ (([]<>(pc = "finished")) \/ ([]<><<Next>>_vars))

(***************************************************************************)
(* The rules engine on its own: one employee, one shift, one verdict       *)
(***************************************************************************)
MaxRosterShifts == 10   \* ten-hour days the employee already works, at most

\* the day of the i-th ten-hour shift: 1, 2, 3, 5, 6, 7, 9, 10, ... (not the
\* Saturday and not the day of the sleepover of the catalogue)
RosterDay(i) == IF i <= 3 THEN i ELSE IF i <= 6 THEN i + 1 ELSE i + 2

LongShift(i) ==
    Shift(200 + i, At(RosterDay(i), 7, 0), At(RosterDay(i), 17, 0),
          WorkArea(LIMESTONE_COAST, DISABILITY, SW_AM), TRUE)

\* emp after add_shift of the first k ten-hour shifts
RECURSIVE WithLongShifts(_, _)
WithLongShifts(emp, k) ==
    IF k = 0 THEN emp ELSE add_shift(WithLongShifts(emp, k - 1), LongShift(k))

WorkAreaChoices ==
    { { WorkArea(LIMESTONE_COAST, DISABILITY, SW_AM),
        WorkArea(LIMESTONE_COAST, DISABILITY, SW_PM) },
      { WorkArea(LIMESTONE_COAST, DISABILITY, SW_AM) },
      { WorkArea(LIMESTONE_COAST, IHS_NORTH, SW_AM) } }

\* the employee the engine is asked about
RulesEmployee(type, contract, areas, k, saturday, on_leave) ==
    LET e0 == [Employee(1, type, contract) EXCEPT !.work_areas = areas]
        e1 == WithLongShifts(e0, k)
        e2 == IF saturday THEN add_shift(e1, RosteredShift(1)) ELSE e1
    IN  IF on_leave THEN add_leave(e2, Leave(4, At(0, 8, 0))) ELSE e2

\* a Saturday shift that starts before the shift the employee may hold that day
EarlyShift ==
    Shift(20, At(4, 0, 30), At(4, 7, 30),
          WorkArea(LIMESTONE_COAST, DISABILITY, SW_AM), TRUE)

\* the shifts the engine is asked about: those of the catalogue, the shifts
\* combine_shifts makes of the catalogue, and the early Saturday shift
RulesCandidates ==
    Range(ShiftCatalogue)
      \cup Range(combine_shifts(<<>>, ShiftCatalogue, At(1, 9, 0)).combined_shifts)
      \cup {EarlyShift}

\* EmploymentType: the members an importer may give an employee
EmploymentTypes == {"CASUAL", "PART_TIME", "FULL_TIME", "UNKNOWN"}

InitRules ==
    /\ pc = "rules"
    /\ now = At(1, 9, 0)
    /\ \E type \in EmploymentTypes, contract \in {"FULL_IFA", "NO_IFA"},
          areas \in WorkAreaChoices, k \in 0..MaxRosterShifts,
          saturday \in BOOLEAN, on_leave \in BOOLEAN :
           employees = << RulesEmployee(type, contract, areas, k, saturday, on_leave) >>
    /\ \E shift \in RulesCandidates : unassigned_shifts = << shift >>
    /\ combined_unfilled_shifts = <<>>
    /\ combination_details = <<>>
    /\ uncombined_short_shifts = <<>>
    /\ assigned_shifts = {}
    /\ rejected_pairs = {}
    /\ employee_assignments = <<>>
    /\ shift_difficulties = <<>>
    /\ unfillable_shifts = <<>>
    /\ proposal = None
    /\ verdict = None
    /\ imported = <<>>
    /\ report_log = <<>>

\* OfferCall that also keeps the shift it was asked about among the
\* shifts of the employee
OfferCall_KeepingTheShift(emp, shift) ==
    [employee |-> add_shift(emp, shift),
     shift    |-> shift,
     result   |-> can_offer_shift(emp, shift)]

\* RulesEngine(employee).can_offer_shift(shift): the employee and the shift the
\* call leaves (no rule assigns to either) and what it returns
OfferCall(emp, shift) ==
    [employee |-> emp,
     shift    |-> shift,
     result   |-> can_offer_shift(emp, shift)]

\* the caller asks the engine about the employee and the shift
CanOfferShift ==
    /\ pc = "rules"
    /\ \E r \in { OfferCall(employees[1], unassigned_shifts[1]) } :
           /\ employees' = << r.employee >>
           /\ unassigned_shifts' = << r.shift >>
           /\ verdict' = r.result
    /\ pc' = "evaluated"
    /\ UNCHANGED <<now, imported, report_log, combined_unfilled_shifts,
                   combination_details, uncombined_short_shifts, assigned_shifts,
                   rejected_pairs, employee_assignments, shift_difficulties,
                   unfillable_shifts, proposal>>

\* the caller asks the engine again, about the same employee and shift
CanOfferShiftAgain ==
    /\ pc = "evaluated"
    /\ \E r \in { OfferCall(employees[1], unassigned_shifts[1]) } :
           /\ employees' = << r.employee >>
           /\ unassigned_shifts' = << r.shift >>
           /\ verdict' = r.result
    /\ pc' = "evaluated again"
    /\ UNCHANGED <<now, imported, report_log, combined_unfilled_shifts,
                   combination_details, uncombined_short_shifts, assigned_shifts,
                   rejected_pairs, employee_assignments, shift_difficulties,
                   unfillable_shifts, proposal>>

NextRules ==
    \/ CanOfferShift
    \/ CanOfferShiftAgain

SpecRules == InitRules /\ [][NextRules]_vars

(***************************************************************************)
(* The combiner on its own: one pool of unfilled shifts, one combine_shifts *)
(***************************************************************************)
MaxCombinePool == 4   \* shifts in the pool given to the combiner, at most

ADELAIDE == <<"ADELAIDE">>

\* the unfilled shift fragments the importer may have read, in the order of the sheet
CombinerCatalogue ==
    << Shift(31, At(5, 9, 0),  At(5, 9, 30), WorkArea(LIMESTONE_COAST, DISABILITY, SW_AM), TRUE),
       Shift(32, At(5, 9, 30), At(5, 12, 0), WorkArea(LIMESTONE_COAST, DISABILITY, SW_AM), TRUE),
       Shift(33, At(5, 12, 0), At(5, 13, 0), WorkArea(LIMESTONE_COAST, DISABILITY, SW_PM), TRUE),
       Shift(34, At(5, 12, 0), At(5, 13, 0), WorkArea(ADELAIDE, DISABILITY, SW_AM), TRUE),
       Shift(35, At(6, 7, 0),  At(6, 12, 0), WorkArea(LIMESTONE_COAST, DISABILITY, SW_AM), TRUE),
       Shift(36, At(6, 12, 0), At(6, 17, 0), WorkArea(LIMESTONE_COAST, DISABILITY, SW_PM), TRUE),
       Shift(37, At(8, 18, 0), At(8, 22, 0), WorkArea(LIMESTONE_COAST, DISABILITY, SW_PM), TRUE),
       Shift(38, At(8, 22, 0), At(9, 6, 0),  WorkArea(LIMESTONE_COAST, DISABILITY, SW_PM), FALSE),
       Shift(39, At(8, 22, 0), At(9, 4, 0),  WorkArea(LIMESTONE_COAST, DISABILITY, SW_AM), TRUE),
       Shift(40, At(9, 4, 0),  At(9, 6, 0),  WorkArea(LIMESTONE_COAST, DISABILITY, SW_AM), TRUE),
       Shift(41, At(5, 9, 0),  At(5, 10, 0), WorkArea(LIMESTONE_COAST, IHS_NORTH, SW_AM), TRUE),
       Shift(42, At(0, 10, 0), At(0, 11, 0), WorkArea(LIMESTONE_COAST, DISABILITY, SW_AM), TRUE),
       Shift(43, At(7, 10, 0), At(7, 11, 0), WorkArea(LIMESTONE_COAST, DISABILITY, SW_AM), TRUE) >>

\* the dataset after the import of the unfilled shifts only
InitCombine ==
    /\ pc = "imported"
    /\ now = At(1, 9, 0)
    /\ employees = <<>>
    /\ \E S \in SUBSET DOMAIN CombinerCatalogue :
           /\ Cardinality(S) <= MaxCombinePool
           /\ unassigned_shifts = SubsequenceAt(CombinerCatalogue, S)
    /\ combined_unfilled_shifts = <<>>
    /\ combination_details = <<>>
    /\ uncombined_short_shifts = <<>>
    /\ assigned_shifts = {}
    /\ rejected_pairs = {}
    /\ employee_assignments = <<>>
    /\ shift_difficulties = <<>>
    /\ unfillable_shifts = <<>>
    /\ proposal = None
    /\ verdict = None
    /\ imported = <<>>
    /\ report_log = <<>>

NextCombine == CombineShifts

SpecCombine == InitCombine /\ [][NextCombine]_vars

(***************************************************************************)
(* The importers on one employee: add_shift and add_leave, row by row      *)
(***************************************************************************)
MaxRows == 4   \* rows of the sheets the importers read for the employee, at most

\* the Shift objects the shift importer may build from the rows of the employee:
\* the first two rows agree in date, start time, end time and work area
ShiftRows ==
    { Shift(51, At(4, 8, 0), At(4, 12, 0), WorkArea(LIMESTONE_COAST, DISABILITY, SW_AM), TRUE),
      Shift(52, At(4, 8, 0), At(4, 12, 0), WorkArea(LIMESTONE_COAST, DISABILITY, SW_AM), TRUE),
      Shift(53, At(4, 12, 0), At(4, 16, 0), WorkArea(LIMESTONE_COAST, DISABILITY, SW_PM), TRUE) }

\* Leave.__init__ with the hours of the entry, which tell two entries of one
\* date and one requested_at apart
LeaveEntry(date, requested_at, hours) == Leave(date, requested_at) @@ [hours |-> hours]

\* the Leave objects the leave importer may build from the rows of the employee
LeaveRows ==
    { LeaveEntry(date, requested_at, hours) :
        date \in {4, 5}, requested_at \in {At(0, 8, 0), At(0, 9, 0)}, hours \in {380, 760} }

\* the dataset when the importers reach the rows of the employee
InitDataset ==
    /\ pc = "importing"
    /\ now = At(1, 9, 0)
    /\ employees = <<Employee(1, "CASUAL", "NO_IFA")>>
    /\ unassigned_shifts = <<>>
    /\ combined_unfilled_shifts = <<>>
    /\ combination_details = <<>>
    /\ uncombined_short_shifts = <<>>
    /\ assigned_shifts = {}
    /\ rejected_pairs = {}
    /\ employee_assignments = <<>>
    /\ shift_difficulties = <<>>
    /\ unfillable_shifts = <<>>
    /\ proposal = None
    /\ verdict = None
    /\ imported = <<>>
    /\ report_log = <<>>

\* dataset.add_shift_to_employee(employee, shift) without a cutoff date: employee.add_shift(shift)
AddShift ==
    /\ pc = "importing"
    /\ Len(imported) < MaxRows
    /\ \E new_shift \in ShiftRows :
           /\ employees' = [employees EXCEPT ![1] = add_shift(@, new_shift)]
           /\ imported' = Append(imported, [call |-> "add_shift", arg |-> new_shift])
    /\ UNCHANGED <<pc, now, report_log, unassigned_shifts, combined_unfilled_shifts, combination_details,
                   uncombined_short_shifts, assigned_shifts, rejected_pairs,
                   employee_assignments, shift_difficulties, unfillable_shifts,
                   proposal, verdict>>

\* employee.add_leave(leave_entry)
AddLeave ==
    /\ pc = "importing"
    /\ Len(imported) < MaxRows
    /\ \E new_leave \in LeaveRows :
           /\ employees' = [employees EXCEPT ![1] = add_leave(@, new_leave)]
           /\ imported' = Append(imported, [call |-> "add_leave", arg |-> new_leave])
    /\ UNCHANGED <<pc, now, report_log, unassigned_shifts, combined_unfilled_shifts, combination_details,
                   uncombined_short_shifts, assigned_shifts, rejected_pairs,
                   employee_assignments, shift_difficulties, unfillable_shifts,
                   proposal, verdict>>

NextDataset ==
    \/ AddShift
    \/ AddLeave

SpecDataset == InitDataset /\ [][NextDataset]_vars

(***************************************************************************)
(* The run on a roster with a department named SUPPORT WORKER, the text    *)
(* _can_work_area looks for in the department of a shift. The caller is    *)
(* one that uses find_next_best_assignment and process_assignment_response *)
(* as main.py does, without the printing of main.py lines 48-53, which     *)
(* reads shift.components for the shifts of such a department.             *)
(***************************************************************************)
MaxSupportPool == 3   \* shifts in the unassigned pool, at most

\* the unfilled shifts the importer may have read, in the order of the sheet
SupportCatalogue ==
    << Shift(61, At(4, 8, 0),  At(4, 12, 0), WorkArea(LIMESTONE_COAST, SUPPORT_WORKER, SW_AM), TRUE),
       Shift(62, At(4, 14, 0), At(4, 18, 0), WorkArea(LIMESTONE_COAST, SUPPORT_WORKER, SW_PM), TRUE),
       Shift(63, At(5, 8, 0),  At(5, 12, 0), WorkArea(LIMESTONE_COAST, SUPPORT_WORKER, SW_PM), TRUE),
       Shift(64, At(5, 9, 0),  At(5, 13, 0), WorkArea(LIMESTONE_COAST, DISABILITY, SW_AM), TRUE) >>

\* the employees the importers may have built, by profile
SupportEmployeeOfProfile(code, profile) ==
    CASE profile = "pool_am" ->
            [Employee(code, "CASUAL", "FULL_IFA") EXCEPT
                !.work_areas = { WorkArea(LIMESTONE_COAST, SUPPORT_WORKER, SW_AM) }]
      [] profile = "pool_pm" ->
            [Employee(code, "PART_TIME", "NO_IFA") EXCEPT
                !.work_areas = { WorkArea(LIMESTONE_COAST, SUPPORT_WORKER, SW_PM) }]
      [] profile = "disability" ->
            [Employee(code, "CASUAL", "NO_IFA") EXCEPT
                !.work_areas = { WorkArea(LIMESTONE_COAST, DISABILITY, SW_AM) }]

SupportProfiles == {"pool_am", "pool_pm", "disability"}

InitSupport ==
    /\ pc = "imported"
    /\ now = At(1, 9, 0)
    /\ \E roster \in [1..NumEmployees -> SupportProfiles] :
           employees = [e \in 1..NumEmployees |-> SupportEmployeeOfProfile(e, roster[e])]
    /\ \E S \in SUBSET DOMAIN SupportCatalogue :
           /\ Cardinality(S) <= MaxSupportPool
           /\ unassigned_shifts = SubsequenceAt(SupportCatalogue, S)
    /\ combined_unfilled_shifts = <<>>
    /\ combination_details = <<>>
    /\ uncombined_short_shifts = <<>>
    /\ assigned_shifts = {}
    /\ rejected_pairs = {}
    /\ employee_assignments = <<>>
    /\ shift_difficulties = <<>>
    /\ unfillable_shifts = <<>>
    /\ proposal = None
    /\ verdict = None
    /\ imported = <<>>
    /\ report_log = <<>>

SpecSupport == InitSupport /\ [][Next]_vars

(***************************************************************************)
(* The report's validators on one employee (report_generator.py):          *)
(* validate_unpaid_breaks and validate_shift_overlaps, in the order of     *)
(* process_employees. The validators read the employee and write to        *)
(* report_logger; the debug lines are left out of the log.                 *)
(***************************************************************************)
MaxValidatedShifts == 4   \* shifts the validated employee holds, at most

\* the shifts the shift importer may have given the employee: Saturday holds
\* a long shift with shifts inside it, Monday three shifts half an hour
\* apart, Friday and Tuesday one unattended half hour each
ValidatedCatalogue ==
    { Shift(71, At(4, 8, 0),   At(4, 16, 0),  WorkArea(LIMESTONE_COAST, DISABILITY, SW_AM), TRUE),
      Shift(72, At(4, 9, 0),   At(4, 10, 0),  WorkArea(LIMESTONE_COAST, DISABILITY, SW_AM), TRUE),
      Shift(73, At(4, 12, 0),  At(4, 14, 0),  WorkArea(LIMESTONE_COAST, DISABILITY, SW_AM), TRUE),
      Shift(74, At(4, 8, 30),  At(4, 8, 40),  WorkArea(LIMESTONE_COAST, DISABILITY, SW_AM), TRUE),
      Shift(75, At(4, 15, 30), At(4, 18, 0),  WorkArea(LIMESTONE_COAST, DISABILITY, SW_AM), TRUE),
      Shift(76, At(6, 8, 0),   At(6, 10, 0),  WorkArea(LIMESTONE_COAST, DISABILITY, SW_AM), TRUE),
      Shift(77, At(6, 10, 30), At(6, 12, 30), WorkArea(LIMESTONE_COAST, DISABILITY, SW_AM), TRUE),
      Shift(78, At(6, 13, 0),  At(6, 17, 0),  WorkArea(LIMESTONE_COAST, DISABILITY, SW_AM), TRUE),
      Shift(79, At(3, 12, 0),  At(3, 12, 30), WorkArea(LIMESTONE_COAST, DISABILITY, SW_AM), FALSE),
      Shift(80, At(7, 12, 0),  At(7, 12, 30), WorkArea(LIMESTONE_COAST, DISABILITY, SW_AM), FALSE) }

\* ContractStatus.is_attended_considered_break
is_attended_considered_break(contract_status) ==
    contract_status \in {"FULL_IFA", "PARTIAL_IFA"}

\* sorted(employee.shifts, key=lambda shift: shift.start): employee.shifts is a
\* set, so shifts of one start time come in any order
SortedByStart(S) ==
    { seq \in [1..Cardinality(S) -> S] :
        /\ Range(seq) = S
        /\ \A i \in 1..(Cardinality(S) - 1) : seq[i].start <= seq[i + 1].start }

\* [shift for shift in employee_shifts if shift.start.date() == date]
RECURSIVE ShiftsOfDay(_, _)
ShiftsOfDay(employee_shifts, date) ==
    IF employee_shifts = <<>> THEN <<>>
    ELSE IF DateOf(Head(employee_shifts).start) = date
         THEN <<Head(employee_shifts)>> \o ShiftsOfDay(Tail(employee_shifts), date)
         ELSE ShiftsOfDay(Tail(employee_shifts), date)

\* validate_unpaid_breaks, lines 306-332: the gap after current_shift
MissingBreakLog(employee, current_shift, next_shift) ==
    LET gap == next_shift.start - current_shift.end
        attended_is_break == is_attended_considered_break(employee.contract_status)
        hours_before ==
            IF ~attended_is_break THEN current_shift.gross_hours
            ELSE IF current_shift.is_attended THEN current_shift.net_hours
            ELSE current_shift.gross_hours
        hours_after ==
            IF ~attended_is_break THEN next_shift.gross_hours
            ELSE IF next_shift.is_attended THEN next_shift.net_hours
            ELSE next_shift.gross_hours
        total_hours == hours_before + hours_after
    IN  IF 15 <= gap /\ gap <= 60 /\ total_hours < 500
        THEN << [level       |-> "warning",
                 message     |-> "Missing unpaid break",
                 break_start |-> current_shift.end,
                 break_end   |-> next_shift.start,
                 total_hours |-> total_hours] >>
        ELSE <<>>

\* validate_unpaid_breaks, lines 334-346: current_shift as a break of its own
StandaloneBreakLog(employee_shifts, current_shift) ==
    LET day_shifts == ShiftsOfDay(employee_shifts, DateOf(current_shift.start))
        is_standalone ==
            \/ (current_shift.id = day_shifts[1].id /\ Len(day_shifts) = 1)
            \/ (current_shift.id = day_shifts[Len(day_shifts)].id /\ Len(day_shifts) = 1)
    IN  IF /\ ~current_shift.is_attended
           /\ 1500 <= current_shift.gross_hours * 60
           /\ current_shift.gross_hours * 60 <= 6000
           /\ is_standalone
        THEN << [level   |-> "warning",
                 message |-> "Standalone unpaid break",
                 shift   |-> current_shift] >>
        ELSE <<>>

\* validate_unpaid_breaks: for i in range(len(employee_shifts) - 1), from i on
RECURSIVE UnpaidBreaksLoop(_, _, _, _)
UnpaidBreaksLoop(employee, employee_shifts, i, logged) ==
    IF i > Len(employee_shifts) - 1 THEN logged
    ELSE UnpaidBreaksLoop(employee, employee_shifts, i + 1,
             logged \o MissingBreakLog(employee, employee_shifts[i], employee_shifts[i + 1])
                    \o StandaloneBreakLog(employee_shifts, employee_shifts[i]))

\* ReportGenerator.validate_unpaid_breaks: conflicts_found is set where a warning is logged
validate_unpaid_breaks(employee, employee_shifts) ==
    [logged   |-> UnpaidBreaksLoop(employee, employee_shifts, 1, <<>>),
     returned |-> UnpaidBreaksLoop(employee, employee_shifts, 1, <<>>) = <<>>]

\* find_overlapping_group: for j in range(start_index + 1, len(employee_shifts)), from j on
RECURSIVE OverlappingGroupLoop(_, _, _)
OverlappingGroupLoop(employee_shifts, j, overlapping_group) ==
    IF j > Len(employee_shifts) THEN overlapping_group
    ELSE IF employee_shifts[j].start >= overlapping_group[Len(overlapping_group)].end
         THEN overlapping_group
         ELSE OverlappingGroupLoop(employee_shifts, j + 1,
                  IF overlapping_group[Len(overlapping_group)].start < employee_shifts[j].end
                  THEN Append(overlapping_group, employee_shifts[j])
                  ELSE overlapping_group)

find_overlapping_group(employee_shifts, start_index) ==
    OverlappingGroupLoop(employee_shifts, start_index + 1, <<employee_shifts[start_index]>>)

\* the error lines of one reported group
OverlapGroupLog(overlapping_group) ==
    << [level   |-> "error",
        message |-> "Overlap group detected",
        date    |-> DateOf(overlapping_group[1].start)] >>
      \o [k \in DOMAIN overlapping_group |->
            [level |-> "error", message |-> "With", shift |-> overlapping_group[k]]]

\* validate_shift_overlaps: for i in range(len(employee_shifts)), from i on;
\* reported_shifts holds Shift objects, told apart by identity
RECURSIVE ShiftOverlapsLoop(_, _, _, _)
ShiftOverlapsLoop(employee_shifts, i, reported_shifts, logged) ==
    IF i > Len(employee_shifts) THEN logged
    ELSE IF \/ employee_shifts[i].gross_hours * 60 < 1500
            \/ employee_shifts[i].id \in reported_shifts
         THEN ShiftOverlapsLoop(employee_shifts, i + 1, reported_shifts, logged)
         ELSE IF Len(find_overlapping_group(employee_shifts, i)) > 1
              THEN ShiftOverlapsLoop(employee_shifts, i + 1,
                       reported_shifts
                         \cup { s.id : s \in Range(find_overlapping_group(employee_shifts, i)) },
                       logged \o OverlapGroupLog(find_overlapping_group(employee_shifts, i)))
              ELSE ShiftOverlapsLoop(employee_shifts, i + 1, reported_shifts, logged)

\* ReportGenerator.validate_shift_overlaps: conflicts_found is set where a group is logged
validate_shift_overlaps(employee_shifts) ==
    [logged   |-> ShiftOverlapsLoop(employee_shifts, 1, {}, <<>>),
     returned |-> ShiftOverlapsLoop(employee_shifts, 1, {}, <<>>) = <<>>]

\* the dataset when process_employees reaches the employee
InitValidate ==
    /\ pc = "validating"
    /\ now = At(1, 9, 0)
    /\ \E contract_status \in {"FULL_IFA", "NO_IFA"} :
       \E S \in SUBSET ValidatedCatalogue :
           /\ Cardinality(S) <= MaxValidatedShifts
           /\ employees = << [Employee(1, "PART_TIME", contract_status) EXCEPT
                                 !.shifts = S,
                                 !.work_areas = { s.work_area : s \in S }] >>
    /\ unassigned_shifts = <<>>
    /\ combined_unfilled_shifts = <<>>
    /\ combination_details = <<>>
    /\ uncombined_short_shifts = <<>>
    /\ assigned_shifts = {}
    /\ rejected_pairs = {}
    /\ employee_assignments = <<>>
    /\ shift_difficulties = <<>>
    /\ unfillable_shifts = <<>>
    /\ proposal = None
    /\ verdict = None
    /\ imported = <<>>
    /\ report_log = <<>>

\* process_employees, line 56: self.validate_unpaid_breaks(employee)
ValidateUnpaidBreaks ==
    /\ pc = "validating"
    /\ pc' = "unpaid_breaks"
    /\ \E employee_shifts \in SortedByStart(employees[1].shifts) :
           /\ verdict' = validate_unpaid_breaks(employees[1], employee_shifts).returned
           /\ report_log' = report_log \o validate_unpaid_breaks(employees[1], employee_shifts).logged
    /\ UNCHANGED <<now, imported, employees, unassigned_shifts, combined_unfilled_shifts,
                   combination_details, uncombined_short_shifts, assigned_shifts,
                   rejected_pairs, employee_assignments, shift_difficulties,
                   unfillable_shifts, proposal>>

\* process_employees, line 58: self.validate_shift_overlaps(employee)
ValidateShiftOverlaps ==
    /\ pc = "unpaid_breaks"
    /\ pc' = "shift_overlaps"
    /\ \E employee_shifts \in SortedByStart(employees[1].shifts) :
           /\ verdict' = validate_shift_overlaps(employee_shifts).returned
           /\ report_log' = report_log \o validate_shift_overlaps(employee_shifts).logged
    /\ UNCHANGED <<now, imported, employees, unassigned_shifts, combined_unfilled_shifts,
                   combination_details, uncombined_short_shifts, assigned_shifts,
                   rejected_pairs, employee_assignments, shift_difficulties,
                   unfillable_shifts, proposal>>

NextValidate ==
    \/ ValidateUnpaidBreaks
    \/ ValidateShiftOverlaps

SpecValidate == InitValidate /\ [][NextValidate]_vars

(***************************************************************************)
(* Properties of the run                                                   *)
(***************************************************************************)
\* every Shift object some pool or employee holds
AllShifts ==
    Range(unassigned_shifts) \cup Range(combined_unfilled_shifts)
        \cup UNION { employees[e].shifts : e \in DOMAIN employees }

\* the number of pools (an employee's shift set, the unassigned pool, the
\* combined-unfilled pool) that hold shift s
PoolsHolding(s) ==
    (IF \E e \in DOMAIN employees : s \in employees[e].shifts THEN 1 ELSE 0)
      + (IF s \in Range(unassigned_shifts) THEN 1 ELSE 0)
      + (IF s \in Range(combined_unfilled_shifts) THEN 1 ELSE 0)

\* employee e passes every one of the eight rules for shift s
PassesAllRules(e, s) ==
    \A i \in 1..8 : rule_func(i, employees[e], s).passed

\* employee e can still be proposed shift s: eligible and not pair-rejected
StillCandidate(e, s) == PassesAllRules(e, s) /\ <<e, s>> \notin rejected_pairs

Combined == pc \in {"combined", "ready", "proposed", "finished"}

\* C1: once the pool is combined, every shift is in exactly one of an
\* employee's shift set, the unassigned pool and the combined-unfilled pool.
C1_ExactlyOnePool ==
    Combined => \A s \in AllShifts : PoolsHolding(s) = 1

\* C2: a shift enters the unfillable map only when no employee of the whole
\* roster is both eligible for it and not pair-rejected for it.
C2_UnfillableOnlyWhenExhausted ==
    [][ \A s \in (DOMAIN unfillable_shifts') \ (DOMAIN unfillable_shifts) :
            ~ \E e \in DOMAIN employees : (StillCandidate(e, s))' ]_vars

\* C3: a shift of the unfillable map is never proposed, in the marking call too,
\* and the assigned set and the unfillable map stay disjoint.
C3_UnfillableIsTerminal ==
    /\ pc = "proposed" => proposal.shift \notin DOMAIN unfillable_shifts
    /\ assigned_shifts \cap DOMAIN unfillable_shifts = {}

\* the proposal was answered and the answer was a rejection
JustRejected ==
    /\ pc = "ready"
    /\ proposal # None
    /\ <<proposal.employee_code, proposal.shift>> \in rejected_pairs

\* the proposal was answered and the answer was an acceptance
JustAccepted ==
    /\ pc = "ready"
    /\ proposal # None
    /\ <<proposal.employee_code, proposal.shift>> \notin rejected_pairs

\* C4: after a rejection that leaves no employee who is eligible and not
\* pair-rejected for the shift, the shift is in the unfillable map and its
\* stored difficulty is 10.
C4_RejectionMarksUnfillable ==
    (JustRejected /\ ~ \E e \in DOMAIN employees : StillCandidate(e, proposal.shift))
        => /\ proposal.shift \in DOMAIN unfillable_shifts
           /\ shift_difficulties[proposal.shift] = 10 * 100

\* C5: when find_next_best_assignment returns None, every shift of the combined
\* pool is assigned or is in the unfillable map with a rejection reason.
C5_NoShiftLeftPending ==
    pc = "finished" =>
        \A s \in Range(combined_unfilled_shifts) :
            \/ s \in assigned_shifts
            \/ /\ s \in DOMAIN unfillable_shifts
               /\ DOMAIN unfillable_shifts[s] # {}

\* C6: a rejected (employee, shift) pair stays rejected and no later proposal
\* is that pair.
C6_RejectedPairNeverProposedAgain ==
    [][ /\ rejected_pairs \subseteq rejected_pairs'
        /\ pc' = "proposed" =>
              <<proposal'.employee_code, proposal'.shift>> \notin rejected_pairs' ]_vars

\* a shift is proposed to a second employee after another one rejected it
C6_Witness ==
    /\ pc = "proposed"
    /\ \E e \in DOMAIN employees : <<e, proposal.shift>> \in rejected_pairs

\* the number of times s is recorded in employee_assignments
TimesAssigned(s) ==
    Cardinality({ <<e, i>> \in (DOMAIN employee_assignments) \X (1..Len(combined_unfilled_shifts)) :
                    /\ i \in DOMAIN employee_assignments[e]
                    /\ employee_assignments[e][i] = s })

RECURSIVE SumOfCounts(_)
SumOfCounts(codes) ==
    IF codes = {} THEN 0
    ELSE LET e == CHOOSE x \in codes : TRUE
         IN  Len(employee_assignments[e]) + SumOfCounts(codes \ {e})

\* C7: an accepted shift is in the employee's shift set and in the assigned
\* set and is not proposed again; no shift is accepted twice, and the counts
\* per employee sum to the size of the assigned set.
C7_AcceptedShiftIsAssignedOnce ==
    /\ JustAccepted => /\ proposal.shift \in employees[proposal.employee_code].shifts
                       /\ proposal.shift \in assigned_shifts
    /\ pc = "proposed" => proposal.shift \notin assigned_shifts
    /\ \A s \in assigned_shifts : TimesAssigned(s) = 1
    /\ SumOfCounts(DOMAIN employee_assignments) = Cardinality(assigned_shifts)

\* a second shift is proposed after two acceptances by two employees
C7_Witness ==
    /\ JustAccepted
    /\ Cardinality(assigned_shifts) >= 2
    /\ Cardinality(DOMAIN employee_assignments) >= 2

\* the employees _find_best_employee_for_shift went through for the proposal:
\* the casual ones when the casual search returned it, and else all of them
PoolConsidered ==
    IF /\ shift_difficulties[proposal.shift] <= 2 * 100
       /\ proposal.shift.gross_hours >= 2 * 100
       /\ employees[proposal.employee_code].employment_type = "CASUAL"
    THEN { e \in DOMAIN employees : employees[e].employment_type = "CASUAL" }
    ELSE DOMAIN employees

\* score a is strictly lower than score b, both fractions
StrictlyLower(a, b) == a[1] * b[2] < b[1] * a[2]

\* C8: the proposed employee passes all eight rules, the pair is not rejected,
\* and no other eligible, non-rejected employee of the pool considered has a
\* strictly lower suitability score.
C8_ProposalIsBestEligible ==
    pc = "proposed" =>
        /\ PassesAllRules(proposal.employee_code, proposal.shift)
        /\ <<proposal.employee_code, proposal.shift>> \notin rejected_pairs
        /\ \A e \in PoolConsidered :
               StillCandidate(e, proposal.shift) =>
                   ~ StrictlyLower(_calculate_employee_score(employees[e], proposal.shift),
                                   _calculate_employee_score(employees[proposal.employee_code],
                                                             proposal.shift))

\* the proposed employee is later in the roster than another candidate whose
\* score is strictly higher
C8_Witness ==
    /\ pc = "proposed"
    /\ \E e \in 1..(proposal.employee_code - 1) :
           /\ StillCandidate(e, proposal.shift)
           /\ StrictlyLower(_calculate_employee_score(employees[proposal.employee_code],
                                                      proposal.shift),
                            _calculate_employee_score(employees[e], proposal.shift))

CasualCandidates(s) ==
    { e \in DOMAIN employees :
        employees[e].employment_type = "CASUAL" /\ StillCandidate(e, s) }

\* the casual employees who pass the eight rules for s, rejected or not
EligibleCasuals(s) ==
    { e \in DOMAIN employees :
        employees[e].employment_type = "CASUAL" /\ PassesAllRules(e, s) }

\* find_next_best_assignment returns a proposal for a shift whose stored
\* difficulty was at most 2.0 and whose gross duration is at least 2 hours
EasyShiftProposed ==
    /\ pc = "ready"
    /\ pc' = "proposed"
    /\ shift_difficulties[proposal'.shift] <= 2 * 100
    /\ proposal'.shift.gross_hours >= 2 * 100

\* C9 as stated: for an easy shift a casual employee is proposed whenever a
\* casual employee is eligible and not pair-rejected, and an employee who is
\* not casual is proposed only when no casual employee is eligible.
C9_NonCasualOnlyWhenNoCasualEligible ==
    [][ EasyShiftProposed =>
          /\ CasualCandidates(proposal'.shift) # {} =>
                employees[proposal'.employee_code].employment_type = "CASUAL"
          /\ employees[proposal'.employee_code].employment_type # "CASUAL" =>
                EligibleCasuals(proposal'.shift) = {} ]_vars

\* C9, amended: for a shift whose stored difficulty is at most 2.0 and whose
\* gross duration is at least 2 hours a casual employee is proposed whenever a
\* casual employee is eligible and not pair-rejected for it; an employee who is
\* not casual is proposed only when no casual employee is both eligible and not
\* pair-rejected.
C9_CasualFirstForEasyShifts ==
    [][ EasyShiftProposed =>
          /\ CasualCandidates(proposal'.shift) # {} =>
                employees[proposal'.employee_code].employment_type = "CASUAL"
          /\ employees[proposal'.employee_code].employment_type # "CASUAL" =>
                CasualCandidates(proposal'.shift) = {} ]_vars

\* a casual employee is proposed for an easy shift although an employee who is
\* not casual is a candidate with a strictly lower score
C9_Witness ==
    /\ pc = "proposed"
    /\ shift_difficulties[proposal.shift] <= 2 * 100
    /\ proposal.shift.gross_hours >= 2 * 100
    /\ employees[proposal.employee_code].employment_type = "CASUAL"
    /\ \E e \in DOMAIN employees :
           /\ employees[e].employment_type # "CASUAL"
           /\ StillCandidate(e, proposal.shift)
           /\ StrictlyLower(_calculate_employee_score(employees[e], proposal.shift),
                            proposal.score)

\* the outcomes of the eight rules in the order the specification gives them
OutcomesInOrder(emp, shift) ==
    << _can_work_area(emp, shift),
       _within_fortnight_days(emp, shift),
       _within_12_hour_window(emp, shift),
       _within_max_hours(emp, shift),
       _meets_ifa_requirements(emp, shift),
       _no_existing_commitments(emp, shift),
       _not_on_leave(emp, shift),
       _not_already_working_unless_longer(emp, shift) >>

NamesInOrder ==
    << "Work Area Authorization", "Fortnight Days Limit", "12-Hour Window",
       "Maximum Hours", "IFA Requirements", "Existing Commitments",
       "Leave Conflict", "Shift Length Priority" >>

FailingRules(emp, shift) ==
    { i \in 1..8 : ~ OutcomesInOrder(emp, shift)[i].passed }

\* what the claim says can_offer_shift returns when the rules in failing fail
VerdictAgrees(v, outcomes, failing) ==
    /\ v[1] <=> failing = {}
    /\ failing # {} =>
          IF Min(failing) = 1
          THEN v[2] = NoReason
          ELSE v[2] = << NamesInOrder[Min(failing)], outcomes[Min(failing)].reason >>

\* C10: can_offer_shift is eligible iff all eight rules pass, and otherwise its
\* reason names the first rule that fails in the order work area, fortnight
\* days, 12-hour window, pay-cycle hours, sleepover/IFA, overlap, leave, shift
\* length; the reason is empty when that rule is the work-area rule.
C10_FirstFailingRuleDecides ==
    pc = "evaluated" =>
        VerdictAgrees(verdict,
                      OutcomesInOrder(employees[1], unassigned_shifts[1]),
                      FailingRules(employees[1], unassigned_shifts[1]))

\* the overlap rule and the leave rule both fail and the verdict names the
\* overlap rule
C10_Witness ==
    /\ pc = "evaluated"
    /\ {6, 7} \subseteq FailingRules(employees[1], unassigned_shifts[1])
    /\ verdict[2] # NoReason
    /\ verdict[2][1] = "Existing Commitments"

\* each of the eight rules is the first to fail for some employee and shift
FirstFailures ==
    [i \in 1..8 |-> pc = "evaluated"
                    /\ FailingRules(employees[1], unassigned_shifts[1]) # {}
                    /\ Min(FailingRules(employees[1], unassigned_shifts[1])) = i]

\* the employee and the shift the rules engine was asked about
AskedEmployee == employees[1]

AskedShift == unassigned_shifts[1]

Asked == pc \in {"evaluated", "evaluated again"}

\* the employee holds some role in the department of the shift, at its location
HoldsRoleInDepartment(emp, shift) ==
    \E wa \in emp.work_areas :
        /\ wa.location = shift.work_area.location
        /\ wa.department = shift.work_area.department

\* C11: for a department that begins with IHS or SOCIAL the work-area rule
\* passes exactly when the employee holds the exact work area; for any other
\* department it passes for an employee who holds any role in the department,
\* and so for every composite shift (role SUPPORT WORKER) of that department.
C11_WorkAreaRule ==
    Asked =>
        IF \E prefix \in {IHS, SOCIAL} : StartsWith(AskedShift.work_area.department, prefix)
        THEN _can_work_area(AskedEmployee, AskedShift).passed
                <=> AskedShift.work_area \in AskedEmployee.work_areas
        ELSE HoldsRoleInDepartment(AskedEmployee, AskedShift)
                => _can_work_area(AskedEmployee, AskedShift).passed

\* the calendar days on which the employee works in the pay cycle of the
\* candidate, the candidate taken
WorkedDays(emp, shift) ==
    { d \in 0..(DateOf(shift.end) + 14) :
        \E s \in { x \in emp.shifts :
                     calculate_pay_cycle(x.start) = calculate_pay_cycle(shift.start) }
                 \cup {shift} :
            DateOf(s.start) <= d /\ d <= DateOf(s.end) }

\* EmploymentType.days, 10 where the type carries none
MaxDaysOf(type) == IF type = "CASUAL" THEN 14 ELSE 10

\* C12: the fortnight-day rule rejects exactly when the distinct calendar days
\* of the employee's shifts in the candidate's pay cycle, with the days of the
\* candidate, are more than the max-days of the employment type (14 for
\* casual, 10 otherwise): 11 days are rejected for max-days 10, 10 are not.
C12_FortnightDays ==
    Asked =>
        (~ _within_fortnight_days(AskedEmployee, AskedShift).passed
            <=> Cardinality(WorkedDays(AskedEmployee, AskedShift))
                    > MaxDaysOf(AskedEmployee.employment_type))

\* a part-time employee with ten worked days is refused an eleventh and the
\* verdict names the rule
C12_Witness ==
    /\ pc = "evaluated"
    /\ AskedEmployee.employment_type = "PART_TIME"
    /\ Cardinality(WorkedDays(AskedEmployee, AskedShift)) = 11
    /\ verdict = <<FALSE, <<"Fortnight Days Limit", "Exceeds maximum 10 days per fortnight">> >>

\* an employee with nine worked days is not refused a tenth by the rule
TenDaysAccepted ==
    /\ pc = "evaluated"
    /\ AskedEmployee.employment_type = "PART_TIME"
    /\ Cardinality(WorkedDays(AskedEmployee, AskedShift)) = 10
    /\ _within_fortnight_days(AskedEmployee, AskedShift).passed

\* the shifts of the employee that start on the calendar day of the candidate
DayShifts(emp, shift) ==
    { s \in emp.shifts : DateOf(s.start) = DateOf(shift.start) }

\* the first shift start of the candidate's calendar day
FirstStartOfDay(emp, shift) ==
    Min({ s.start : s \in DayShifts(emp, shift) \cup {shift} })

\* the net hours of the employee's shifts that start in the 12-hour window
NetHoursInWindow(emp, shift) ==
    SumNet({ s \in DayShifts(emp, shift) :
               /\ FirstStartOfDay(emp, shift) <= s.start
               /\ s.start <= FirstStartOfDay(emp, shift) + 12 * 60 })

\* C13: the 12-hour window rule rejects the candidate exactly when the net
\* hours of the employee's shifts that start within 12 hours of the first
\* shift start of the candidate's calendar day, plus the net hours of the
\* candidate, are more than 10, whatever the gap between the shifts.
C13_TwelveHourWindow ==
    Asked =>
        (~ _within_12_hour_window(AskedEmployee, AskedShift).passed
            <=> NetHoursInWindow(AskedEmployee, AskedShift) + AskedShift.net_hours
                    > 10 * 100)

\* EmploymentType.hours_per_paycycle, in hundredths of an hour
MaxHoursOf(type) == IF type = "UNKNOWN" THEN 0 ELSE 76 * 100

\* the net hours of the employee's shifts in the pay cycle of the candidate
NetHoursInPayCycle(emp, shift) ==
    SumNet({ s \in emp.shifts :
               calculate_pay_cycle(s.start) = calculate_pay_cycle(shift.start) })

\* C14: the pay-cycle hour rule rejects the candidate exactly when the net
\* hours of the employee's shifts in the candidate's pay cycle plus the net
\* hours of the candidate are more than the max hours of the employment type
\* (76 for casual, part-time and full-time, 0 for an unknown type).
C14_PayCycleHours ==
    Asked =>
        (~ _within_max_hours(AskedEmployee, AskedShift).passed
            <=> NetHoursInPayCycle(AskedEmployee, AskedShift) + AskedShift.net_hours
                    > MaxHoursOf(AskedEmployee.employment_type))

CompositesOf(s) == { c \in DOMAIN combination_details : s \in Range(combination_details[c]) }

\* C16: in the combiner's output every input shift is a component of at most
\* one composite shift, and a component of a composite does not also appear
\* stand-alone; sleepover assembly consumes a shift only once, too.
C16_NoShiftInTwoMerges ==
    pc = "combined" =>
        \A s \in Range(unassigned_shifts) :
            /\ Cardinality(CompositesOf(s)) <= 1
            /\ CompositesOf(s) # {} => s \notin Range(combined_unfilled_shifts)

\* s is in the combined output unchanged, or as a recorded component of a composite of it
KeptByCombiner(s) ==
    \/ s \in Range(combined_unfilled_shifts)
    \/ \E c \in CompositesOf(s) : c \in Range(combined_unfilled_shifts)

\* C17: the combiner drops nothing: every shift of the unassigned pool is in the
\* combined output, unchanged or as a component recorded for a composite; shifts
\* of IHS departments are passed through unchanged, and so are the sub-2-hour
\* shifts that were not merged, which are also listed as short shifts.
C17_CombinerDropsNothing ==
    pc = "combined" =>
        \A s \in Range(unassigned_shifts) :
            /\ KeptByCombiner(s)
            /\ Contains(s.work_area.department, IHS) => s \in Range(combined_unfilled_shifts)
            /\ (s.gross_hours < 2 * 100 /\ CompositesOf(s) = {}
                  /\ ~Contains(s.work_area.department, IHS)) =>
                   (s \in Range(combined_unfilled_shifts) /\ s \in Range(uncombined_short_shifts))

\* the composites built by regular combination: no component spans midnight
RegularComposites ==
    { c \in DOMAIN combination_details :
        \A j \in DOMAIN combination_details[c] : ~_is_sleepover_shift(combination_details[c][j]) }

\* the components of c are exactly adjacent and of c's department and location
AdjacentComponents(c, components) ==
    /\ Len(components) >= 2
    /\ \A j \in 1..(Len(components) - 1) : components[j].end = components[j + 1].start
    /\ \A j \in DOMAIN components :
           /\ components[j].work_area.department = c.work_area.department
           /\ components[j].work_area.location = c.work_area.location
    /\ c.start = components[1].start
    /\ c.end = components[Len(components)].end

\* the shift of the catalogue with this identity is in the pool
InPool(id) == \E s \in Range(unassigned_shifts) : s.id = id

\* C18: every composite of regular combination consists of exactly adjacent
\* shifts of one department and location, has at most 10 gross hours in total
\* and has a component under 2 gross hours; 09:00-09:30 and 09:30-12:00 of one
\* work area become one 09:00-12:00 shift, two adjacent 5-hour shifts stay separate.
C18_RegularCombination ==
    pc = "combined" =>
        /\ \A c \in RegularComposites :
               /\ AdjacentComponents(c, combination_details[c])
               /\ c.gross_hours = SumGrossSeq(combination_details[c])
               /\ c.gross_hours <= 10 * 100
               /\ \E j \in DOMAIN combination_details[c] :
                      combination_details[c][j].gross_hours < 2 * 100
        /\ (InPool(31) /\ InPool(32)) =>
               \E c \in Range(combined_unfilled_shifts) :
                   /\ c.start = At(5, 9, 0)
                   /\ c.end = At(5, 12, 0)
                   /\ c \in DOMAIN combination_details
                   /\ combination_details[c] = <<CombinerCatalogue[1], CombinerCatalogue[2]>>
        /\ (InPool(35) /\ InPool(36)) =>
               /\ {CombinerCatalogue[5], CombinerCatalogue[6]} \subseteq Range(combined_unfilled_shifts)
               /\ CompositesOf(CombinerCatalogue[5]) = {}
               /\ CompositesOf(CombinerCatalogue[6]) = {}

\* both examples in one pool: the half-hour fragment was merged, the 5-hour shifts were not
C18_Witness ==
    /\ pc = "combined"
    /\ InPool(31) /\ InPool(32) /\ InPool(35) /\ InPool(36)
    /\ Cardinality(RegularComposites) = 1
    /\ Len(combined_unfilled_shifts) = 3

\* the composites built by sleepover assembly: a component spans midnight
SleepoverComposites == DOMAIN combination_details \ RegularComposites

\* the attended components of a composite
AttendedComponents(components) == { s \in Range(components) : s.is_attended }

\* s is the attended component before (ending at its start, starting at most 4
\* hours earlier) or after (starting at its end, ending by 06:00) the sleepover shift
BeforeSleepover(s, sleepover) ==
    /\ s.is_attended
    /\ s.end = sleepover.start
    /\ s.start >= sleepover.start - 4 * 60

AfterSleepover(s, sleepover) ==
    /\ s.is_attended
    /\ HourOf(sleepover.end) < 6
    /\ s.start = sleepover.end
    /\ s.end <= DateOf(sleepover.end) * MinutesPerDay + 6 * 60

\* C19: a midnight-spanning shift is merged with the contiguous component that
\* ends at its start and starts at most 4 hours earlier and, if it ends before
\* 06:00, the component that starts at its end and ends by 06:00; the composite
\* spans [min start, max end] and its net hours are the sum of the net hours of
\* the attended components, the sleepover shift counting only if it is attended
\* (22:00-06:00 unattended plus 18:00-22:00 attended gives net 4).
C19_SleepoverAssembly ==
    pc = "combined" =>
        \A c \in SleepoverComposites :
            /\ \E sleepover \in Range(combination_details[c]) :
                   /\ _is_sleepover_shift(sleepover)
                   /\ \A s \in Range(combination_details[c]) \ {sleepover} :
                          BeforeSleepover(s, sleepover) \/ AfterSleepover(s, sleepover)
            /\ c.start = Min({ s.start : s \in Range(combination_details[c]) })
            /\ c.end = Max({ s.end : s \in Range(combination_details[c]) })
            /\ c.net_hours = SumNet(AttendedComponents(combination_details[c]))

\* the roles of the components of a composite
ComponentRoles(components) == { s.work_area.role : s \in Range(components) }

\* C20: the role of a composite shift is the generic SUPPORT WORKER label
\* exactly when the roles of its components differ; when all components have
\* one role the composite keeps it. Location and department are the components'.
C20_CompositeRole ==
    pc = "combined" =>
        \A c \in DOMAIN combination_details :
            /\ c.work_area.role = SUPPORT_WORKER
                   <=> Cardinality(ComponentRoles(combination_details[c])) > 1
            /\ Cardinality(ComponentRoles(combination_details[c])) = 1
                   => c.work_area.role \in ComponentRoles(combination_details[c])
            /\ \A s \in Range(combination_details[c]) :
                   /\ s.work_area.location = c.work_area.location
                   /\ s.work_area.department = c.work_area.department

\* s spans midnight and no shift of the pool ends at its start or starts at its end
LoneSleepover(s) ==
    /\ _is_sleepover_shift(s)
    /\ \A o \in Range(unassigned_shifts) : o.end # s.start /\ o.start # s.end

\* C30: a midnight-spanning shift with no contiguous preceding or following
\* component is merged with nothing: the combiner's output holds the original
\* shift, with its own role and net hours, not a one-component synthetic shift.
C30_LoneSleepoverKept ==
    pc = "combined" =>
        \A s \in Range(unassigned_shifts) :
            (LoneSleepover(s) /\ s.start >= DateOf(now) * MinutesPerDay) =>
                /\ s \in Range(combined_unfilled_shifts)
                /\ CompositesOf(s) = {}

\* chain is a chain the regular combination is to consolidate: three or four
\* shifts of the pool from today on, none spanning midnight, exactly adjacent,
\* of one department outside IHS, one location and one role prefix, with at most
\* 10 gross hours in total and a fragment under 2 hours
MergeableChain(chain) ==
    /\ Len(chain) \in {3, 4}
    /\ \A j \in DOMAIN chain :
           /\ chain[j] \in Range(unassigned_shifts)
           /\ chain[j].start >= DateOf(now) * MinutesPerDay
           /\ ~_is_sleepover_shift(chain[j])
           /\ ~Contains(chain[j].work_area.department, IHS)
           /\ chain[j].work_area.department = chain[1].work_area.department
           /\ chain[j].work_area.location = chain[1].work_area.location
           /\ _get_role_prefix(chain[j].work_area.role) = _get_role_prefix(chain[1].work_area.role)
    /\ \A j \in 1..(Len(chain) - 1) : chain[j].end = chain[j + 1].start
    /\ SumGrossSeq(chain) <= 10 * 100
    /\ \E j \in DOMAIN chain : chain[j].gross_hours < 2 * 100

\* the chains of three or four shifts of the pool
ChainsOfPool ==
    UNION { [1..n -> Range(unassigned_shifts)] : n \in {3, 4} }

\* C27: a chain of three or four exactly adjacent shifts of one role prefix in
\* one (department, location) group, with at most 10 gross hours and a
\* sub-2-hour fragment, becomes one composite covering the whole chain; no
\* member is left unmerged because a shorter sub-chain was merged first.
C27_WholeChainMerged ==
    pc = "combined" =>
        \A chain \in ChainsOfPool :
            MergeableChain(chain) =>
                \E c \in Range(combined_unfilled_shifts) :
                    /\ c \in DOMAIN combination_details
                    /\ Range(chain) \subseteq Range(combination_details[c])

\* two shifts agree in start, end and work area
SameShiftKey(a, b) == a.start = b.start /\ a.end = b.end /\ a.work_area = b.work_area

\* the last call of the importers was add_shift with a shift that agrees in
\* start, end and work area with one the employee held before the call
AddedEqualShift ==
    /\ imported # <<>>
    /\ imported[Len(imported)].call = "add_shift"
    /\ \E k \in 1..(Len(imported) - 1) :
           /\ imported[k].call = "add_shift"
           /\ SameShiftKey(imported[k].arg, imported[Len(imported)].arg)

\* C24: after any sequence of add_shift calls the employee's shift set holds no
\* two shifts with equal start, end and work area, and adding a shift equal in
\* those three fields to one already held leaves the shift set unchanged.
C24_ShiftsDeduplicated ==
    [][ /\ \A a, b \in employees'[1].shifts : SameShiftKey(a, b) => a = b
        /\ AddedEqualShift' => employees'[1].shifts = employees[1].shifts ]_vars

\* the positions of the add_leave calls made for a date
LeaveCallsFor(date) ==
    { k \in DOMAIN imported : imported[k].call = "add_leave" /\ imported[k].arg.date = date }

\* the first of the calls for a date that carry the latest requested_at
WinningCall(date) ==
    Min({ k \in LeaveCallsFor(date) :
            \A j \in LeaveCallsFor(date) : imported[j].arg.requested_at <= imported[k].arg.requested_at })

\* C25: after any sequence of add_leave calls the employee holds at most one
\* leave entry per date, and the entry held for a date is the one with the
\* latest requested_at among the entries added for it; an entry that is not
\* strictly more recent than the held one is discarded.
C25_LatestLeaveWins ==
    /\ \A a, b \in employees[1].leave_dates : a.date = b.date => a = b
    /\ \A l \in employees[1].leave_dates : LeaveCallsFor(l.date) # {}
    /\ \A k \in DOMAIN imported :
           imported[k].call = "add_leave" =>
               imported[WinningCall(imported[k].arg.date)].arg \in employees[1].leave_dates

\* three entries were added for one date: an older one, a newer one that
\* replaced it, and another as recent as the held one that was discarded
C25_Witness ==
    \E i, j, k \in DOMAIN imported :
        /\ i < j /\ j < k
        /\ {i, j, k} \subseteq LeaveCallsFor(4)
        /\ imported[i].arg.requested_at < imported[j].arg.requested_at
        /\ imported[k].arg.requested_at = imported[j].arg.requested_at
        /\ imported[k].arg # imported[j].arg
        /\ employees[1].leave_dates = {imported[j].arg}

\* two shifts share a time interval of positive length
SharePositiveInterval(a, b) == a.start < b.end /\ b.start < a.end

\* C26: the no-overlapping-commitment rule rejects the candidate exactly when
\* it shares a positive-length interval with a shift the employee holds; a
\* candidate that starts exactly when a held shift ends, or ends exactly when
\* one starts, is not rejected by this rule.
C26_OverlapRule ==
    Asked =>
        (~_no_existing_commitments(AskedEmployee, AskedShift).passed
            <=> \E s \in AskedEmployee.shifts : SharePositiveInterval(s, AskedShift))

\* a step of respond, and the decision it carries
Responding == pc = "proposed" /\ pc' = "ready"

AcceptingStep == Responding /\ proposal.shift \in assigned_shifts'

RejectingStep == Responding /\ <<proposal.employee_code, proposal.shift>> \in rejected_pairs'

\* C29: respond changes only what the decision requires: accepting adds the
\* shift to that employee's shifts and leaves the employee's authorised work
\* areas and every other employee unchanged; rejecting leaves every employee's
\* shifts, leave and work areas unchanged.
C29_RespondFrame ==
    [][ /\ AcceptingStep =>
              /\ employees'[proposal.employee_code].shifts
                     = employees[proposal.employee_code].shifts \cup {proposal.shift}
              /\ employees'[proposal.employee_code].work_areas
                     = employees[proposal.employee_code].work_areas
              /\ employees'[proposal.employee_code].leave_dates
                     = employees[proposal.employee_code].leave_dates
              /\ \A e \in DOMAIN employees \ {proposal.employee_code} :
                     employees'[e] = employees[e]
        /\ RejectingStep => employees' = employees ]_vars

\* the rounds of the loop so far: every answer is an acceptance or a rejection
RoundsAnswered == Cardinality(assigned_shifts) + Cardinality(rejected_pairs)

\* C28: when every proposal is answered by one respond call, nextProposal
\* returns none after finitely many rounds, at most the number of shifts
\* (acceptances) plus shifts times employees (rejections), because every
\* answer strictly enlarges the assigned set or the set of rejected pairs.
C28_LoopTerminates ==
    /\ <>(pc = "finished")
    /\ [](RoundsAnswered <= Len(combined_unfilled_shifts)
                              + Len(combined_unfilled_shifts) * Len(employees))
    /\ [][Responding =>
            \/ /\ assigned_shifts \subseteq assigned_shifts'
               /\ assigned_shifts' # assigned_shifts
               /\ rejected_pairs' = rejected_pairs
            \/ /\ rejected_pairs \subseteq rejected_pairs'
               /\ rejected_pairs' # rejected_pairs
               /\ assigned_shifts' = assigned_shifts]_vars

\* a run has ended after acceptances and rejections were both given
C28_Witness ==
    /\ pc = "finished"
    /\ assigned_shifts # {}
    /\ Cardinality(rejected_pairs) >= 2

(***************************************************************************)
(* Properties of the validators                                            *)
(***************************************************************************)
\* the shifts of the validated employee
ValidatedShifts == employees[1].shifts

\* a comes right before b in the chronological list of the employee's shifts
ConsecutiveShifts(a, b) ==
    /\ a.start < b.start
    /\ ~ \E c \in ValidatedShifts : a.start < c.start /\ c.start < b.start

\* the log holds a missing-break warning for the gap between a and b
MissingBreakFlagged(a, b) ==
    \E k \in DOMAIN report_log :
        /\ report_log[k].message = "Missing unpaid break"
        /\ report_log[k].break_start = a.end
        /\ report_log[k].break_end = b.start

\* C22: after validate_unpaid_breaks, for every two chronologically
\* consecutive shifts of the employee with a gap of 15 to 60 minutes between
\* them, no missing break is flagged for the gap when the hours of the two
\* shifts add up to less than 5, and a missing break is flagged for it when
\* they add up to 5 or more.
C22_BreakAdequacy ==
    (pc = "unpaid_breaks") =>
        \A a \in ValidatedShifts : \A b \in ValidatedShifts :
            (/\ ConsecutiveShifts(a, b)
             /\ 15 <= b.start - a.end
             /\ b.start - a.end <= 60)
                => (MissingBreakFlagged(a, b) <=> (a.gross_hours + b.gross_hours >= 500))

\* an unattended shift of 15 to 60 minutes that is the only shift of its day
StandaloneBreak(s) ==
    /\ ~s.is_attended
    /\ 15 <= s.end - s.start
    /\ s.end - s.start <= 60
    /\ \A t \in ValidatedShifts : DateOf(t.start) = DateOf(s.start) => t.id = s.id

\* the log holds a standalone-unpaid-break warning for s
StandaloneFlagged(s) ==
    \E k \in DOMAIN report_log :
        /\ report_log[k].message = "Standalone unpaid break"
        /\ report_log[k].shift.id = s.id

\* C23: after validate_unpaid_breaks, every unattended shift of 15 to 60
\* minutes that is the employee's only shift of its day is flagged as a
\* standalone unpaid break and the check has returned False, also when the
\* shift is the last or the only shift of the employee.
C23_StandaloneBreakFlagged ==
    (pc = "unpaid_breaks") =>
        \A s \in ValidatedShifts :
            StandaloneBreak(s) => (StandaloneFlagged(s) /\ verdict = FALSE)

\* the positions of the log that open an overlap group
GroupHeaders == { k \in DOMAIN report_log : report_log[k].message = "Overlap group detected" }

\* the ids of the shifts the group opened at position k names
GroupAt(k) ==
    { report_log[j].shift.id :
        j \in { i \in DOMAIN report_log :
                  /\ i > k
                  /\ report_log[i].message = "With"
                  /\ \A h \in GroupHeaders : ~(k < h /\ h < i) } }

\* a and b share an interval of positive length
TimeOverlap(a, b) == a.id # b.id /\ a.start < b.end /\ b.start < a.end

\* the shifts of at least 15 minutes
Reportable == { s \in ValidatedShifts : s.end - s.start >= 15 }

\* C21: after validate_shift_overlaps, every shift of at least 15 minutes
\* that overlaps another such shift is named in exactly one reported group,
\* a group that names a shift names every shift of at least 15 minutes that
\* overlaps it, and an employee with exactly two shifts that overlap gets
\* exactly one group, which names both.
C21_MaximalOverlapGroups ==
    (pc = "shift_overlaps") =>
        /\ \A s \in Reportable :
               (\E t \in Reportable : TimeOverlap(s, t))
                   => Cardinality({ k \in GroupHeaders : s.id \in GroupAt(k) }) = 1
        /\ \A k \in GroupHeaders : \A s \in Reportable : \A t \in Reportable :
               (s.id \in GroupAt(k) /\ TimeOverlap(s, t)) => t.id \in GroupAt(k)
        /\ \A a \in Reportable : \A b \in Reportable :
               (ValidatedShifts = {a, b} /\ TimeOverlap(a, b))
                   => (Cardinality(GroupHeaders) = 1
                       /\ \A k \in GroupHeaders : GroupAt(k) = {a.id, b.id})

============================================================================
